---- MODULE Spec2Model ----
(***************************************************************************)
(* Model of the XSHA execution engine: the ExecutionManager (registry of   *)
(* running conversations with a concurrency cap) and the conversation      *)
(* executor built on it (scheduler tick, processConversation, the worker   *)
(* goroutine executeTask with its deferred cleanup, CancelExecution and    *)
(* RetryExecution), as written in the aiTaskExecutorService source.        *)
(*                                                                         *)
(* Every access to shared state (a database row, the manager under its     *)
(* mutex, a context) is one atomic step; the goroutines interleave between *)
(* those steps.                                                            *)
(***************************************************************************)
EXTENDS Integers, Sequences, FiniteSets, TLC

\* ------------------------------------------------------------------ bounds
NumConv == 2              \* conversation ids (1..NumConv), one task each
MaxConcurrentTasks == 1   \* cfg.MaxConcurrentTasks of the executor service
MaxCapEM == 2             \* largest cap passed to NewExecutionManager (SpecEM, SpecCap)
MaxWorkers == 2           \* worker goroutines of one conversation alive at a time
MaxRequests == 4          \* conversations created, ticks, cancels and retries, in all
MaxLines == 1             \* lines a container writes to its pipes
MaxParseLines == 2        \* lines of a log handed to the result parser (SpecParse)
MaxContentLen == 2        \* characters of a conversation content (SpecQuote)
LiveLoad == 2             \* conversations, cancels and retries while the ticker recurs

Conv == 1..NumConv
MaxRuns == 2                \* runs of one task, one after the other
WorkerID == Conv \X (1..MaxWorkers)   \* a worker, and the cancel handle of its context
RetryKey == 0             \* the processConversation call made by RetryExecution

Terminal == {"success", "failed", "cancelled"}
Status == {"pending", "running"} \cup Terminal
Details == {"ok", "noTask", "noProject", "noEnv", "noProjectNoEnv"}
\* ------------------------------------------------------------ log lines
\* A log line as the result parser sees it: whether it is blank, has no JSON
\* part, has a JSON part that does not decode, or has a JSON object; the
\* object's "type", which of the other required fields it has, whether
\* is_error is a bool and session_id a non-empty string, and the length of
\* the JSON part.
JSONExtractLen == 100     \* jsonStr[:100], the extract logged for a found result

ResultFields == {"subtype", "is_error", "session_id"}

Line(j, t, f, ty, n) == [json |-> j, type |-> t, fields |-> f, typed |-> ty, len |-> n]

ResultLine(n) == Line("object", "result", ResultFields, TRUE, n)

\* what a run writes in Spec: a valid result line longer than the extract
LineKind == {ResultLine(JSONExtractLen + 1)}

\* lengths of a valid result line around the extract length
LineLens == {JSONExtractLen - 1, JSONExtractLen, JSONExtractLen + 1}

\* the lines the parser is given in SpecParse
ParseLines ==
    {Line("blank", "", {}, FALSE, 0),
     Line("none", "", {}, FALSE, 0),
     Line("malformed", "", {}, FALSE, JSONExtractLen - 1),
     Line("object", "other", ResultFields, TRUE, JSONExtractLen - 1),
     Line("object", "result", {"is_error", "session_id"}, TRUE, JSONExtractLen - 1),
     Line("object", "result", {"subtype", "is_error"}, TRUE, JSONExtractLen - 1),
     Line("object", "result", ResultFields, FALSE, JSONExtractLen - 1)}
    \cup {ResultLine(n) : n \in LineLens}

RECURSIVE ParseLogs(_)
ParseLogs(n) ==
    IF n = 0 THEN {<<>>}
    ELSE ParseLogs(n - 1) \cup
         {Append(o, l) : o \in {x \in ParseLogs(n - 1) : Len(x) = n - 1}, l \in ParseLines}

VARIABLES
    maxConcurrency,        \* ExecutionManager.maxConcurrency
    runningConversations,  \* ExecutionManager.runningConversations: id -> cancel handle
    currentCount,          \* ExecutionManager.currentCount
    ctxDone,               \* cancel handles that have been invoked (ctx.Done() closed)
    status,                \* conversation rows (the conversations created): status
    commit_hash,           \* conversation row: commit_hash ("" when unset)
    details,               \* which of Task / Project / DevEnvironment a conversation lacks
    task_workspace_path,   \* task row: workspace_path is non-empty
    execLogs,              \* execution-log rows: id -> row; an id is <<conversation, n>>
    nextLogID,             \* per conversation, the n of its next execution-log row
    results,               \* result rows per conversation: the log each was parsed from
    wsDirty,               \* the task workspace has uncommitted changes
    wsGit,                 \* the task workspace holds a clone (.git exists)
    workers,               \* executeTask goroutines (and their pipe readers)
    tick,                  \* the ProcessPendingConversations call in progress
    procs,                 \* processConversation calls in progress
    cancelOp,              \* the CancelExecution call in progress
    retryOp,               \* the RetryExecution call in progress
    requests,              \* conversations created, ticks, cancels and retries so far
    cancelledLive,         \* a cancel accepted while a worker was live has returned
    orphan,                \* the container of a killed docker client is still running
    call                   \* a call of the docker executor or the workspace manager
                           \* taken by itself: its arguments, locals and effects

emVars == <<maxConcurrency, runningConversations, currentCount>>
dbVars == <<status, commit_hash, details, task_workspace_path, execLogs, nextLogID, results>>
fsVars == <<wsDirty, wsGit, orphan>>
goVars == <<workers, tick, procs, cancelOp, retryOp>>
reqVars == <<requests>>
vars == <<maxConcurrency, runningConversations, currentCount, ctxDone,
          status, commit_hash, details, task_workspace_path, execLogs, nextLogID,
          results, wsDirty, wsGit, workers, tick, procs, cancelOp, retryOp,
          requests, cancelledLive, orphan, call>>

\* everything but call
serviceVars == <<maxConcurrency, runningConversations, currentCount, ctxDone,
                 status, commit_hash, details, task_workspace_path, execLogs, nextLogID,
                 results, wsDirty, wsGit, workers, tick, procs, cancelOp, retryOp,
                 requests, cancelledLive, orphan>>

Put(f, k, v) == [x \in DOMAIN f \cup {k} |-> IF x = k THEN v ELSE f[x]]
Drop(f, k) == [x \in DOMAIN f \ {k} |-> f[x]]

\* ------------------------------------------------------- ExecutionManager
DefaultMaxConcurrency == 5

NewExecutionManager(n) == IF n <= 0 THEN DefaultMaxConcurrency ELSE n

CanExecute == currentCount < maxConcurrency

IsRunning(id) == id \in DOMAIN runningConversations

GetRunningCount == currentCount

\* the value AddExecution returns
AddExecutionAdmits == ~(currentCount >= maxConcurrency)

AddExecutionNoCap(id, h) ==
    /\ runningConversations' =
         [x \in DOMAIN runningConversations \cup {id} |->
            IF x = id THEN h ELSE runningConversations[x]]
    /\ currentCount' = currentCount + 1

AddExecution(id, h) ==
    IF currentCount >= maxConcurrency
    THEN UNCHANGED <<runningConversations, currentCount>>
    ELSE /\ runningConversations' =
              [x \in DOMAIN runningConversations \cup {id} |->
                 IF x = id THEN h ELSE runningConversations[x]]
         /\ currentCount' = currentCount + 1

RemoveExecution(id) ==
    IF id \in DOMAIN runningConversations
    THEN /\ runningConversations' =
              [x \in DOMAIN runningConversations \ {id} |-> runningConversations[x]]
         /\ currentCount' = currentCount - 1
    ELSE UNCHANGED <<runningConversations, currentCount>>

\* the value ExecutionManager.CancelExecution returns
EMCancelFound(id) == id \in DOMAIN runningConversations

EMCancelExecutionSilent(id) ==
    IF id \in DOMAIN runningConversations
    THEN /\ UNCHANGED ctxDone
         /\ runningConversations' =
              [x \in DOMAIN runningConversations \ {id} |-> runningConversations[x]]
         /\ currentCount' = currentCount - 1
    ELSE UNCHANGED <<runningConversations, currentCount, ctxDone>>

EMCancelExecution(id) ==
    IF id \in DOMAIN runningConversations
    THEN /\ ctxDone' = ctxDone \cup {runningConversations[id]}
         /\ runningConversations' =
              [x \in DOMAIN runningConversations \ {id} |-> runningConversations[x]]
         /\ currentCount' = currentCount - 1
    ELSE UNCHANGED <<runningConversations, currentCount, ctxDone>>

\* ---------------------------------------- the manager on its own (SpecEM)
IdleTick == [pc |-> "idle", list |-> <<>>, i |-> 1]
IdleCall == [op |-> "none"]

IdleOp == [pc |-> "idle", conv |-> 0, path |-> FALSE, live |-> FALSE]

\* everything but the manager, as it is when the service has been constructed
\* and the conversations have been created (pending, no log, no result)
InitRest ==
    /\ ctxDone = {}
    /\ \E n \in 1..NumConv :
         /\ status = [c \in 1..n |-> "pending"]
         /\ details \in [1..n -> Details]
         /\ requests = n
    /\ commit_hash = [c \in Conv |-> ""]
    /\ task_workspace_path = [c \in Conv |-> FALSE]
    /\ execLogs = <<>>
    /\ nextLogID = [c \in Conv |-> 1]
    /\ results = [c \in Conv |-> <<>>]
    /\ wsDirty = [c \in Conv |-> FALSE]
    /\ wsGit = [c \in Conv |-> FALSE]
    /\ workers = <<>>
    /\ tick = IdleTick
    /\ procs = <<>>
    /\ cancelOp = IdleOp
    /\ retryOp = IdleOp
    /\ cancelledLive = [c \in Conv |-> FALSE]
    /\ orphan = [c \in Conv |-> FALSE]

notEM == <<status, commit_hash, details, task_workspace_path, execLogs, nextLogID,
           results, wsDirty, wsGit, workers, tick, procs, cancelOp, retryOp,
           requests, cancelledLive, orphan, call>>

InitEM ==
    /\ \E n \in 0..MaxCapEM : maxConcurrency = NewExecutionManager(n)
    /\ runningConversations = <<>>
    /\ currentCount = 0
    /\ InitRest
    /\ call = IdleCall
    /\ DOMAIN status = Conv
    /\ details = [c \in Conv |-> "ok"]

CallAddExecution ==
    \E id \in Conv, h \in WorkerID :
        /\ AddExecution(id, h)
        /\ UNCHANGED <<maxConcurrency, ctxDone, notEM>>

CallRemoveExecution ==
    \E id \in Conv :
        /\ RemoveExecution(id)
        /\ UNCHANGED <<maxConcurrency, ctxDone, notEM>>

CallCancelExecution ==
    \E id \in Conv :
        /\ EMCancelExecution(id)
        /\ UNCHANGED <<maxConcurrency, notEM>>

NextEM == CallAddExecution \/ CallRemoveExecution \/ CallCancelExecution

SpecEM == InitEM /\ [][NextEM]_vars

\* ------------------------------------------------- execution-log store
NewLog(c, msg) == [conv |-> c, lines |-> <<>>, completed_at |-> FALSE, error_message |-> msg]

\* execLogRepo.Create: a new row with a primary key never used before
NextLogID(c) == <<c, nextLogID[c]>>

CreateLog(c, msg) ==
    /\ execLogs' = Put(execLogs, NextLogID(c), NewLog(c, msg))
    /\ nextLogID' = [nextLogID EXCEPT ![c] = @ + 1]

\* execLogRepo.UpdateMetadata: touches the named fields of an existing row only
SetErrorMessage(id, msg) ==
    execLogs' = IF id \in DOMAIN execLogs
                THEN [execLogs EXCEPT ![id].error_message = msg]
                ELSE execLogs

\* execLogRepo.AppendLog: appends to execution_logs of an existing row
AppendLog(id, line) ==
    execLogs' = IF id \in DOMAIN execLogs
                THEN [execLogs EXCEPT ![id].lines = Append(@, line)]
                ELSE execLogs

\* execLogRepo.DeleteByConversationID
DeleteByConversationID(c) ==
    execLogs' = [id \in {x \in DOMAIN execLogs : execLogs[x].conv # c} |-> execLogs[id]]

LogsOf(c) == {id \in DOMAIN execLogs : execLogs[id].conv = c}

\* ------------------------------------------------------- scheduler tick
\* GetPendingConversationsWithDetails: the pending conversations, in id order,
\* each a copy of the row and of its task as they are at the time of the query
RECURSIVE PendingFrom(_)
PendingFrom(c) ==
    IF c \notin DOMAIN status THEN <<>>
    ELSE (IF status[c] = "pending"
          THEN <<[id |-> c, path |-> task_workspace_path[c]]>>
          ELSE <<>>) \o PendingFrom(c + 1)

GetPendingConversationsWithDetails == PendingFrom(1)

NewProc(c, path) == [conv |-> c, path |-> path, pc |-> "validate", log |-> <<>>]

TickAfterJoinsWorkers(t, ps) ==
    IF t.pc = "loop" /\ t.i > Len(t.list) /\ DOMAIN ps \cap Conv = {}
       /\ DOMAIN workers = {}
    THEN IdleTick ELSE t

\* wg.Wait(): the call returns when the loop is over and every
\* processConversation goroutine of the batch has returned
TickAfter(t, ps) ==
    IF t.pc = "loop" /\ t.i > Len(t.list) /\ DOMAIN ps \cap Conv = {}
    THEN IdleTick ELSE t

\* the ticker fires: the pending conversations are queried
TickFetch ==
    /\ tick.pc = "idle"
    /\ tick' = TickAfter([pc |-> "loop", list |-> GetPendingConversationsWithDetails,
                          i |-> 1], procs)
    /\ UNCHANGED <<emVars, ctxDone, dbVars, fsVars, workers, procs, cancelOp, retryOp,
                   cancelledLive, call>>

TickQuery ==
    /\ requests < MaxRequests
    /\ requests' = requests + 1
    /\ TickFetch

\* loop body, first check: CanExecute
TickCanExecute ==
    /\ tick.pc = "loop"
    /\ tick.i <= Len(tick.list)
    /\ tick' = IF ~CanExecute
               THEN TickAfter([tick EXCEPT !.i = @ + 1], procs)
               ELSE [tick EXCEPT !.pc = "isRunning"]
    /\ UNCHANGED <<emVars, ctxDone, dbVars, fsVars, workers, procs, cancelOp, retryOp,
                   reqVars, cancelledLive, call>>

\* loop body, second check: IsRunning; then the goroutine is spawned
TickIsRunning ==
    /\ tick.pc = "isRunning"
    /\ LET conv == tick.list[tick.i] IN
         /\ procs' = IF IsRunning(conv.id)
                     THEN procs
                     ELSE Put(procs, conv.id, NewProc(conv.id, conv.path))
         /\ tick' = TickAfter([tick EXCEPT !.pc = "loop", !.i = @ + 1], procs')
    /\ UNCHANGED <<emVars, ctxDone, dbVars, fsVars, workers, cancelOp, retryOp,
                   reqVars, cancelledLive, call>>

\* --------------------------------------------------- processConversation
HasTask(c) == details[c] # "noTask"
HasProject(c) == details[c] \notin {"noProject", "noProjectNoEnv"}
HasDevEnvironment(c) == details[c] \notin {"noEnv", "noProjectNoEnv"}

ValidationErrorEnvFirst(c) ==
    IF ~HasTask(c) THEN "missing task"
    ELSE IF ~HasDevEnvironment(c) THEN "no development environment"
    ELSE IF ~HasProject(c) THEN "missing project"
    ELSE ""

\* the three nil checks, in the order of the code
ValidationError(c) ==
    IF ~HasTask(c) THEN "missing task"
    ELSE IF ~HasProject(c) THEN "missing project"
    ELSE IF ~HasDevEnvironment(c) THEN "no development environment"
    ELSE ""

\* processConversation returns: the goroutine of a tick ends; RetryExecution
\* goes on with the returned error
ProcReturn(k, ok) ==
    /\ procs' = Drop(procs, k)
    /\ tick' = TickAfter(tick, procs')
    /\ retryOp' = IF k # RetryKey THEN retryOp
                  ELSE IF ok THEN IdleOp
                  ELSE [retryOp EXCEPT !.pc = "rollback"]

\* the precondition checks, then the first status write: failed
\* (setConversationFailed) or running
ProcValidate(k) ==
    /\ k \in DOMAIN procs
    /\ procs[k].pc = "validate"
    /\ LET c == procs[k].conv IN
         IF ValidationError(c) # ""
         THEN /\ status' = [status EXCEPT ![c] = "failed"]
              /\ procs' = [procs EXCEPT ![k].pc = "failedLog"]
         ELSE /\ status' = [status EXCEPT ![c] = "running"]
              /\ procs' = [procs EXCEPT ![k].pc = "createLog"]
    /\ UNCHANGED <<emVars, ctxDone, commit_hash, details, task_workspace_path, execLogs,
                   nextLogID, results, fsVars, workers, tick, cancelOp, retryOp,
                   reqVars, cancelledLive, call>>

\* setConversationFailed, second half: the log row that carries the error
ProcFailedLog(k) ==
    /\ k \in DOMAIN procs
    /\ procs[k].pc = "failedLog"
    /\ CreateLog(procs[k].conv, ValidationError(procs[k].conv))
    /\ ProcReturn(k, FALSE)
    /\ UNCHANGED <<emVars, ctxDone, status, commit_hash, details, task_workspace_path,
                   results, fsVars, workers, cancelOp, reqVars, cancelledLive, call>>

ProcCreateLog(k) ==
    /\ k \in DOMAIN procs
    /\ procs[k].pc = "createLog"
    /\ CreateLog(procs[k].conv, "")
    /\ procs' = [procs EXCEPT ![k].pc = "admit", ![k].log = NextLogID(procs[k].conv)]
    /\ UNCHANGED <<emVars, ctxDone, status, commit_hash, details, task_workspace_path,
                   results, fsVars, workers, tick, cancelOp, retryOp, reqVars,
                   cancelledLive, call>>

FreeWorkers(c) == {w \in WorkerID : w[1] = c} \ DOMAIN workers
FreshWorker(c) == CHOOSE w \in FreeWorkers(c) : \A x \in FreeWorkers(c) : w[2] <= x[2]

NewWorker(c, log, path) ==
    [conv |-> c, log |-> log, path |-> path, pc |-> "start",
     finalStatus |-> "", errorMsg |-> FALSE, commitHash |-> "",
     container |-> "none", pipe |-> <<>>]

\* context.WithCancel, AddExecution, and on success `go s.executeTask`
ProcAdmit(k) ==
    /\ k \in DOMAIN procs
    /\ procs[k].pc = "admit"
    /\ FreeWorkers(procs[k].conv) # {}
    /\ LET c == procs[k].conv
           h == FreshWorker(c) IN
         /\ AddExecution(c, h)
         /\ IF AddExecutionAdmits
            THEN /\ workers' = Put(workers, h, NewWorker(c, procs[k].log, procs[k].path))
                 /\ ctxDone' = ctxDone \ {h}
                 /\ ProcReturn(k, TRUE)
            ELSE /\ procs' = [procs EXCEPT ![k].pc = "rollbackStatus"]
                 /\ UNCHANGED <<workers, ctxDone, retryOp, tick>>
    /\ UNCHANGED <<maxConcurrency, dbVars, fsVars, cancelOp, reqVars, cancelledLive, call>>

ProcRollbackStatusSkipped(k) ==
    /\ k \in DOMAIN procs
    /\ procs[k].pc = "rollbackStatus"
    /\ procs' = [procs EXCEPT ![k].pc = "rollbackLog"]
    /\ UNCHANGED <<emVars, ctxDone, dbVars, fsVars, workers, tick, cancelOp, retryOp,
                   reqVars, cancelledLive, call>>

\* rollbackToState, first half: the conversation goes back to pending
ProcRollbackStatus(k) ==
    /\ k \in DOMAIN procs
    /\ procs[k].pc = "rollbackStatus"
    /\ status' = [status EXCEPT ![procs[k].conv] = "pending"]
    /\ procs' = [procs EXCEPT ![k].pc = "rollbackLog"]
    /\ UNCHANGED <<emVars, ctxDone, commit_hash, details, task_workspace_path, execLogs,
                   nextLogID, results, fsVars, workers, tick, cancelOp, retryOp,
                   reqVars, cancelledLive, call>>

ProcRollbackLogSkipped(k) ==
    /\ k \in DOMAIN procs
    /\ procs[k].pc = "rollbackLog"
    /\ ProcReturn(k, FALSE)
    /\ UNCHANGED <<emVars, ctxDone, dbVars, fsVars, workers, cancelOp, reqVars,
                   cancelledLive, call>>

\* rollbackToState, second half: error_message of the log row just created
ProcRollbackLog(k) ==
    /\ k \in DOMAIN procs
    /\ procs[k].pc = "rollbackLog"
    /\ SetErrorMessage(procs[k].log, "concurrency limit")
    /\ ProcReturn(k, FALSE)
    /\ UNCHANGED <<emVars, ctxDone, status, commit_hash, details, task_workspace_path,
                   nextLogID, results, fsVars, workers, cancelOp, reqVars,
                   cancelledLive, call>>

\* ----------------------------------------------- executeTask (the worker)
LiveWorkersOf(c) == {w \in DOMAIN workers : workers[w].conv = c}

\* a stage ends the run: finalStatus and errorMsg are set and the deferred
\* cleanup starts
EndRun(r, st) ==
    [r EXCEPT !.finalStatus = st, !.errorMsg = (st # "success"), !.pc = "remove"]

\* what the run ends with when a stage returned an error: the select on
\* ctx.Done()
StatusOnError(w) == IF w \in ctxDone THEN "cancelled" ELSE "failed"

\* first cancellation check
WorkerStart(w) ==
    /\ w \in DOMAIN workers
    /\ workers[w].pc = "start"
    /\ workers' = [workers EXCEPT ![w] =
                     IF w \in ctxDone THEN EndRun(@, "cancelled")
                     ELSE [@ EXCEPT !.pc = "prepare"]]
    /\ UNCHANGED <<emVars, ctxDone, dbVars, fsVars, tick, procs, cancelOp, retryOp,
                   reqVars, cancelledLive, call>>

\* stage 1: GetOrCreateTaskWorkspace, the task row's path, started_at
WorkerPrepare(w) ==
    /\ w \in DOMAIN workers
    /\ workers[w].pc = "prepare"
    /\ \E ok \in BOOLEAN :
         IF ok
         THEN /\ workers' = [workers EXCEPT ![w].pc = "check2", ![w].path = TRUE]
              /\ task_workspace_path' =
                   IF workers[w].path THEN task_workspace_path
                   ELSE [task_workspace_path EXCEPT ![workers[w].conv] = TRUE]
         ELSE /\ workers' = [workers EXCEPT ![w] = EndRun(@, "failed")]
              /\ UNCHANGED task_workspace_path
    /\ UNCHANGED <<emVars, ctxDone, status, commit_hash, details, execLogs, nextLogID,
                   results, fsVars, tick, procs, cancelOp, retryOp, reqVars,
                   cancelledLive, call>>

\* second cancellation check
WorkerCheck2(w) ==
    /\ w \in DOMAIN workers
    /\ workers[w].pc = "check2"
    /\ workers' = [workers EXCEPT ![w] =
                     IF w \in ctxDone THEN EndRun(@, "cancelled")
                     ELSE [@ EXCEPT !.pc = "clone"]]
    /\ UNCHANGED <<emVars, ctxDone, dbVars, fsVars, tick, procs, cancelOp, retryOp,
                   reqVars, cancelledLive, call>>

\* stage 2: clone unless the repository exists
WorkerClone(w) ==
    /\ w \in DOMAIN workers
    /\ workers[w].pc = "clone"
    /\ LET c == workers[w].conv IN
         IF wsGit[c]
         THEN /\ workers' = [workers EXCEPT ![w].pc = "docker"]
              /\ UNCHANGED wsGit
         ELSE \E ok \in BOOLEAN :
                IF ok
                THEN /\ wsGit' = [wsGit EXCEPT ![c] = TRUE]
                     /\ workers' = [workers EXCEPT ![w].pc = "docker"]
                ELSE /\ workers' = [workers EXCEPT ![w] = EndRun(@, "failed")]
                     /\ UNCHANGED wsGit
    /\ UNCHANGED <<emVars, ctxDone, dbVars, orphan, wsDirty, tick, procs, cancelOp, retryOp,
                   reqVars, cancelledLive, call>>

\* what the agent writes to stdout and stderr during a run
RECURSIVE Outputs(_)
Outputs(n) ==
    IF n = 0 THEN {<<>>}
    ELSE Outputs(n - 1) \cup
         {Append(o, k) : o \in {x \in Outputs(n - 1) : Len(x) = n - 1}, k \in LineKind}

\* the lines the readers have scanned when cmd.Wait closes the pipes: the
\* rest is lost
Scanned(pipe) == {SubSeq(pipe, 1, n) : n \in 0..Len(pipe)}

\* stage 3: the docker command, the availability check, cmd.Start (which
\* fails when the context is already cancelled) and the
\* two reader goroutines; the process writes its output to the pipes
WorkerDocker(w) ==
    /\ w \in DOMAIN workers
    /\ workers[w].pc = "docker"
    /\ \E available \in BOOLEAN, out \in Outputs(MaxLines) :
         workers' = [workers EXCEPT ![w] =
                       IF available /\ w \notin ctxDone
                       THEN [@ EXCEPT !.pc = "running", !.container = "running",
                                      !.pipe = out]
                       ELSE EndRun(@, StatusOnError(w))]
    /\ UNCHANGED <<emVars, ctxDone, dbVars, fsVars, tick, procs, cancelOp, retryOp,
                   reqVars, cancelledLive, call>>

\* cmd.Wait returns: exit 0, or an error (non-zero exit, timeout, or the
\* process killed because the context was cancelled). By then the agent may
\* have changed files of the mounted workspace; the pipes are closed.
WorkerWait(w) ==
    /\ w \in DOMAIN workers
    /\ workers[w].pc = "running"
    /\ \E exit0 \in BOOLEAN, wrote \in BOOLEAN, held \in Scanned(workers[w].pipe) :
         /\ workers' = [workers EXCEPT ![w] =
                          LET r == [@ EXCEPT !.container = "exited", !.pipe = held] IN
                          IF exit0 THEN [r EXCEPT !.pc = "commit"]
                          ELSE EndRun(r, StatusOnError(w))]
         /\ wsDirty' = IF wrote THEN [wsDirty EXCEPT ![workers[w].conv] = TRUE]
                       ELSE wsDirty
    /\ UNCHANGED <<emVars, ctxDone, dbVars, orphan, wsGit, tick, procs, cancelOp, retryOp,
                   reqVars, cancelledLive, call>>

\* cmd.Wait returns because exec.CommandContext has killed `sh -c docker run`
\* on cancellation: the client is gone, nothing stops the container, which
\* goes on running in the daemon with the workspace mounted
WorkerKilled(w) ==
    /\ w \in DOMAIN workers
    /\ workers[w].pc = "running"
    /\ w \in ctxDone
    /\ \E wrote \in BOOLEAN, held \in Scanned(workers[w].pipe) :
         /\ workers' = [workers EXCEPT ![w] =
                          EndRun([@ EXCEPT !.pipe = held], StatusOnError(w))]
         /\ wsDirty' = IF wrote THEN [wsDirty EXCEPT ![workers[w].conv] = TRUE]
                       ELSE wsDirty
    /\ orphan' = [orphan EXCEPT ![workers[w].conv] = TRUE]
    /\ UNCHANGED <<emVars, ctxDone, dbVars, wsGit, tick, procs, cancelOp, retryOp,
                   reqVars, cancelledLive, call>>

\* the agent in a container left running changes files under /app, the
\* mounted task workspace
ContainerWrite(c) ==
    /\ orphan[c]
    /\ wsDirty' = [wsDirty EXCEPT ![c] = TRUE]
    /\ UNCHANGED <<emVars, ctxDone, dbVars, wsGit, orphan, goVars, reqVars,
                   cancelledLive, call>>

\* the agent ends by itself; `--rm` removes the container
ContainerExit(c) ==
    /\ orphan[c]
    /\ orphan' = [orphan EXCEPT ![c] = FALSE]
    /\ UNCHANGED <<emVars, ctxDone, dbVars, wsDirty, wsGit, goVars, reqVars,
                   cancelledLive, call>>

WorkerCommitFailsRun(w) ==
    /\ w \in DOMAIN workers
    /\ workers[w].pc = "commit"
    /\ LET c == workers[w].conv IN
       \E ok \in BOOLEAN :
         IF ok /\ wsDirty[c]
         THEN /\ wsDirty' = [wsDirty EXCEPT ![c] = FALSE]
              /\ workers' = [workers EXCEPT ![w] =
                               EndRun([@ EXCEPT !.commitHash = "hash"], "success")]
         ELSE /\ workers' = [workers EXCEPT ![w] = EndRun(@, "failed")]
              /\ UNCHANGED wsDirty
    /\ UNCHANGED <<emVars, ctxDone, dbVars, orphan, wsGit, tick, procs, cancelOp, retryOp,
                   reqVars, cancelledLive, call>>

\* stage 4: CommitChanges; it can succeed only when there is something to
\* commit, and its failure is logged and ignored
WorkerCommit(w) ==
    /\ w \in DOMAIN workers
    /\ workers[w].pc = "commit"
    /\ LET c == workers[w].conv IN
       \E ok \in BOOLEAN :
         IF ok /\ wsDirty[c]
         THEN /\ wsDirty' = [wsDirty EXCEPT ![c] = FALSE]
              /\ workers' = [workers EXCEPT ![w] =
                               EndRun([@ EXCEPT !.commitHash = "hash"], "success")]
         ELSE /\ workers' = [workers EXCEPT ![w] = EndRun(@, "success")]
              /\ UNCHANGED wsDirty
    /\ UNCHANGED <<emVars, ctxDone, dbVars, orphan, wsGit, tick, procs, cancelOp, retryOp,
                   reqVars, cancelledLive, call>>

\* ---------------------------------------------- the deferred cleanup
AfterWorkspace(r) == IF r.commitHash # "" THEN "commitHash" ELSE "metadata"

AfterStatus(r) ==
    IF r.finalStatus \in {"failed", "cancelled"} /\ r.path
    THEN "wsCleanup" ELSE AfterWorkspace(r)

CleanupRemove(w) ==
    /\ w \in DOMAIN workers
    /\ workers[w].pc = "remove"
    /\ RemoveExecution(workers[w].conv)
    /\ workers' = [workers EXCEPT ![w].pc = "finalStatus"]
    /\ UNCHANGED <<maxConcurrency, ctxDone, dbVars, fsVars, tick, procs, cancelOp,
                   retryOp, reqVars, cancelledLive, call>>

CleanupFinalStatus(w) ==
    /\ w \in DOMAIN workers
    /\ workers[w].pc = "finalStatus"
    /\ status' = [status EXCEPT ![workers[w].conv] = workers[w].finalStatus]
    /\ workers' = [workers EXCEPT ![w].pc = AfterStatus(workers[w])]
    /\ UNCHANGED <<emVars, ctxDone, commit_hash, details, task_workspace_path, execLogs,
                   nextLogID, results, fsVars, tick, procs, cancelOp, retryOp,
                   reqVars, cancelledLive, call>>

\* CleanupWorkspaceOnFailure / CleanupWorkspaceOnCancel
CleanupWorkspace(w) ==
    /\ w \in DOMAIN workers
    /\ workers[w].pc = "wsCleanup"
    /\ wsDirty' = [wsDirty EXCEPT ![workers[w].conv] = FALSE]
    /\ workers' = [workers EXCEPT ![w].pc = AfterWorkspace(workers[w])]
    /\ UNCHANGED <<emVars, ctxDone, dbVars, orphan, wsGit, tick, procs, cancelOp, retryOp,
                   reqVars, cancelledLive, call>>

CleanupCommitHash(w) ==
    /\ w \in DOMAIN workers
    /\ workers[w].pc = "commitHash"
    /\ commit_hash' = [commit_hash EXCEPT ![workers[w].conv] = workers[w].commitHash]
    /\ workers' = [workers EXCEPT ![w].pc = "metadata"]
    /\ UNCHANGED <<emVars, ctxDone, status, details, task_workspace_path, execLogs,
                   nextLogID, results, fsVars, tick, procs, cancelOp, retryOp,
                   reqVars, cancelledLive, call>>

CleanupMetadataAlwaysMessage(w) ==
    /\ w \in DOMAIN workers
    /\ workers[w].pc = "metadata"
    /\ LET id == workers[w].log IN
         execLogs' =
           IF id \in DOMAIN execLogs
           THEN [execLogs EXCEPT ![id].completed_at = TRUE,
                                 ![id].error_message =
                                    "run error"]
           ELSE execLogs
    /\ workers' = [workers EXCEPT ![w].pc = "reread"]
    /\ UNCHANGED <<emVars, ctxDone, status, commit_hash, details, task_workspace_path,
                   nextLogID, results, fsVars, tick, procs, cancelOp, retryOp,
                   reqVars, cancelledLive, call>>

\* UpdateMetadata: completed_at, and error_message when errorMsg is set
CleanupMetadata(w) ==
    /\ w \in DOMAIN workers
    /\ workers[w].pc = "metadata"
    /\ LET id == workers[w].log IN
         execLogs' =
           IF id \in DOMAIN execLogs
           THEN [execLogs EXCEPT ![id].completed_at = TRUE,
                                 ![id].error_message =
                                    IF workers[w].errorMsg THEN "run error" ELSE @]
           ELSE execLogs
    /\ workers' = [workers EXCEPT ![w].pc = "reread"]
    /\ UNCHANGED <<emVars, ctxDone, status, commit_hash, details, task_workspace_path,
                   nextLogID, results, fsVars, tick, procs, cancelOp, retryOp,
                   reqVars, cancelledLive, call>>

\* extractJSONFromLogLine returns a non-empty JSON part
extractJSONFromLogLine(line) == line.json \in {"malformed", "object"}

validateResultData(data) ==
    /\ ResultFields \subseteq data.fields
    /\ data.type = "result"
    /\ data.typed

\* the tests a line passes before it is taken as the result
IsResultLine(line) ==
    /\ line.json # "blank"
    /\ extractJSONFromLogLine(line)
    /\ line.json = "object"
    /\ line.type = "result"
    /\ "subtype" \in line.fields
    /\ "is_error" \in line.fields
    /\ validateResultData(line)

\* parseExecutionResult: the lines are scanned from the last to the first;
\* at the first line that passes the tests the extract jsonStr[:100] is
\* taken for the log message, which panics when the JSON part is shorter,
\* and the result is returned
\* (the value returned is given as the number of the line it was decoded from)
RECURSIVE ScanBack(_, _)
ScanBack(lines, i) ==
    IF i = 0 THEN [outcome |-> "none", line |-> 0]
    ELSE IF IsResultLine(lines[i])
         THEN IF lines[i].len < JSONExtractLen
              THEN [outcome |-> "panic", line |-> i]
              ELSE [outcome |-> "found", line |-> i]
         ELSE ScanBack(lines, i - 1)

parseExecutionResult(executionLogs) == ScanBack(executionLogs, Len(executionLogs))

ParseFindsResult(lines) == parseExecutionResult(lines).outcome = "found"

\* the worker has returned. A reader that still holds a line goes with it:
\* nothing reads the text of this run's log row afterwards.
WorkerReturn(w) == Drop(workers, w)

\* GetByID of the log (the in-memory row, whose text is empty, when the row
\* is gone), then the parse
CleanupReread(w) ==
    /\ w \in DOMAIN workers
    /\ workers[w].pc = "reread"
    /\ LET id == workers[w].log
           lines == IF id \in DOMAIN execLogs THEN execLogs[id].lines ELSE <<>> IN
         workers' = IF ParseFindsResult(lines)
                    THEN [workers EXCEPT ![w].pc = "exists"]
                    ELSE IF parseExecutionResult(lines).outcome = "panic"
                    THEN [workers EXCEPT ![w].pc = "panic"]
                    ELSE WorkerReturn(w)
    /\ UNCHANGED <<emVars, ctxDone, dbVars, fsVars, tick, procs, cancelOp, retryOp,
                   reqVars, cancelledLive, call>>

\* ExistsByConversationID; the call returns when the store fails
CleanupExists(w) ==
    /\ w \in DOMAIN workers
    /\ workers[w].pc = "exists"
    /\ \E err \in BOOLEAN :
         workers' = IF err \/ results[workers[w].conv] # <<>>
                    THEN WorkerReturn(w)
                    ELSE [workers EXCEPT ![w].pc = "create"]
    /\ UNCHANGED <<emVars, ctxDone, dbVars, fsVars, tick, procs, cancelOp, retryOp,
                   reqVars, cancelledLive, call>>

\* taskConvResultService.CreateResult: a result row is inserted
CreateResult(c, log) == results' = [results EXCEPT ![c] = Append(@, log)]

CleanupCreate(w) ==
    /\ w \in DOMAIN workers
    /\ workers[w].pc = "create"
    /\ \E err \in BOOLEAN :
         IF err THEN UNCHANGED results
         ELSE CreateResult(workers[w].conv, workers[w].log)
    /\ workers' = WorkerReturn(w)
    /\ UNCHANGED <<emVars, ctxDone, status, commit_hash, details, task_workspace_path,
                   execLogs, nextLogID, fsVars, tick, procs, cancelOp, retryOp,
                   reqVars, cancelledLive, call>>

\* ------------------------------------------------------ the pipe readers
\* readPipe / readPipeWithErrorCapture: a scanned line is appended to the log.
\* Nothing joins the readers: they run on after cmd.Wait has returned.
ReaderAppend(w) ==
    /\ w \in DOMAIN workers
    /\ workers[w].pipe # <<>>
    /\ AppendLog(workers[w].log, Head(workers[w].pipe))
    /\ workers' = [workers EXCEPT ![w].pipe = Tail(@)]
    /\ UNCHANGED <<emVars, ctxDone, status, commit_hash, details, task_workspace_path,
                   nextLogID, results, fsVars, tick, procs, cancelOp, retryOp,
                   reqVars, cancelledLive, call>>

\* ------------------------------------------------------ CancelExecution
\* GetByID and the status check: only pending or running can be cancelled
CancelGet(c) ==
    /\ c \in DOMAIN status
    /\ cancelOp.pc = "idle"
    /\ requests < MaxRequests
    /\ IF status[c] \in {"pending", "running"}
       THEN /\ cancelOp' = [pc |-> "emCancel", conv |-> c, path |-> task_workspace_path[c],
                            live |-> LiveWorkersOf(c) # {}]
            /\ requests' = requests + 1
       ELSE UNCHANGED <<cancelOp, requests>>
    /\ UNCHANGED <<emVars, ctxDone, dbVars, fsVars, workers, tick, procs, retryOp,
                   cancelledLive, call>>

CancelManager ==
    /\ cancelOp.pc = "emCancel"
    /\ EMCancelExecution(cancelOp.conv)
    /\ cancelOp' = [cancelOp EXCEPT !.pc = "update"]
    /\ UNCHANGED <<maxConcurrency, dbVars, fsVars, workers, tick, procs, retryOp,
                   reqVars, cancelledLive, call>>

CancelReturn ==
    /\ cancelOp' = IdleOp
    /\ cancelledLive' = IF cancelOp.live
                        THEN [cancelledLive EXCEPT ![cancelOp.conv] = TRUE]
                        ELSE cancelledLive

CancelUpdate ==
    /\ cancelOp.pc = "update"
    /\ status' = [status EXCEPT ![cancelOp.conv] = "cancelled"]
    /\ IF cancelOp.path
       THEN /\ cancelOp' = [cancelOp EXCEPT !.pc = "cleanup"]
            /\ UNCHANGED cancelledLive
       ELSE CancelReturn
    /\ UNCHANGED <<emVars, ctxDone, commit_hash, details, task_workspace_path, execLogs,
                   nextLogID, results, fsVars, workers, tick, procs, retryOp, reqVars, call>>

\* CleanupWorkspaceOnCancel on the path read with the conversation
CancelCleanup ==
    /\ cancelOp.pc = "cleanup"
    /\ wsDirty' = [wsDirty EXCEPT ![cancelOp.conv] = FALSE]
    /\ CancelReturn
    /\ UNCHANGED <<emVars, ctxDone, dbVars, orphan, wsGit, workers, tick, procs, retryOp, reqVars, call>>

\* ------------------------------------------------------- RetryExecution
\* GetByID and the status check: only failed or cancelled can be retried
RetryGet(c) ==
    /\ c \in DOMAIN status
    /\ retryOp.pc = "idle"
    /\ requests < MaxRequests
    /\ IF status[c] \in {"failed", "cancelled"}
       THEN /\ retryOp' = [pc |-> "isRunning", conv |-> c, path |-> task_workspace_path[c],
                           live |-> FALSE]
            /\ requests' = requests + 1
       ELSE UNCHANGED <<retryOp, requests>>
    /\ UNCHANGED <<emVars, ctxDone, dbVars, fsVars, workers, tick, procs, cancelOp,
                   cancelledLive, call>>

RetryIsRunning ==
    /\ retryOp.pc = "isRunning"
    /\ retryOp' = IF IsRunning(retryOp.conv) THEN IdleOp
                  ELSE [retryOp EXCEPT !.pc = "canExecute"]
    /\ UNCHANGED <<emVars, ctxDone, dbVars, fsVars, workers, tick, procs, cancelOp,
                   reqVars, cancelledLive, call>>

RetryCanExecuteDeletesFirst ==
    /\ retryOp.pc = "canExecute"
    /\ DeleteByConversationID(retryOp.conv)
    /\ retryOp' = IF ~CanExecute THEN IdleOp
                  ELSE [retryOp EXCEPT !.pc = "reset"]
    /\ UNCHANGED <<emVars, ctxDone, status, commit_hash, details, task_workspace_path,
                   nextLogID, results, fsVars, workers, tick, procs, cancelOp,
                   reqVars, cancelledLive, call>>

RetryCanExecute ==
    /\ retryOp.pc = "canExecute"
    /\ retryOp' = IF ~CanExecute THEN IdleOp
                  ELSE [retryOp EXCEPT !.pc = "delete"]
    /\ UNCHANGED <<emVars, ctxDone, dbVars, fsVars, workers, tick, procs, cancelOp,
                   reqVars, cancelledLive, call>>

RetryDelete ==
    /\ retryOp.pc = "delete"
    /\ DeleteByConversationID(retryOp.conv)
    /\ retryOp' = [retryOp EXCEPT !.pc = "reset"]
    /\ UNCHANGED <<emVars, ctxDone, status, commit_hash, details, task_workspace_path,
                   nextLogID, results, fsVars, workers, tick, procs, cancelOp,
                   reqVars, cancelledLive, call>>

\* the status goes back to pending and processConversation is called
RetryReset ==
    /\ retryOp.pc = "reset"
    /\ status' = [status EXCEPT ![retryOp.conv] = "pending"]
    /\ procs' = Put(procs, RetryKey, NewProc(retryOp.conv, retryOp.path))
    /\ retryOp' = [retryOp EXCEPT !.pc = "process"]
    /\ cancelledLive' = [cancelledLive EXCEPT ![retryOp.conv] = FALSE]
    /\ UNCHANGED <<emVars, ctxDone, commit_hash, details, task_workspace_path, execLogs,
                   nextLogID, results, fsVars, workers, tick, cancelOp, reqVars, call>>

\* processConversation returned an error: the status is set to failed
RetryRollback ==
    /\ retryOp.pc = "rollback"
    /\ status' = [status EXCEPT ![retryOp.conv] = "failed"]
    /\ retryOp' = IdleOp
    /\ UNCHANGED <<emVars, ctxDone, commit_hash, details, task_workspace_path, execLogs,
                   nextLogID, results, fsVars, workers, tick, procs, cancelOp, reqVars,
                   cancelledLive, call>>

\* ---------------------------------------------------------- the system
Init ==
    /\ maxConcurrency = NewExecutionManager(MaxConcurrentTasks)
    /\ runningConversations = <<>>
    /\ currentCount = 0
    /\ InitRest
    /\ call = IdleCall

ProcKey == Conv \cup {RetryKey}

Next ==
    \/ TickQuery
    \/ TickCanExecute
    \/ TickIsRunning
    \/ \E k \in ProcKey : ProcValidate(k)
    \/ \E k \in ProcKey : ProcFailedLog(k)
    \/ \E k \in ProcKey : ProcCreateLog(k)
    \/ \E k \in ProcKey : ProcAdmit(k)
    \/ \E k \in ProcKey : ProcRollbackStatus(k)
    \/ \E k \in ProcKey : ProcRollbackLog(k)
    \/ \E w \in WorkerID : WorkerStart(w)
    \/ \E w \in WorkerID : WorkerPrepare(w)
    \/ \E w \in WorkerID : WorkerCheck2(w)
    \/ \E w \in WorkerID : WorkerClone(w)
    \/ \E w \in WorkerID : WorkerDocker(w)
    \/ \E w \in WorkerID : WorkerWait(w)
    \/ \E w \in WorkerID : WorkerCommit(w)
    \/ \E w \in WorkerID : CleanupRemove(w)
    \/ \E w \in WorkerID : CleanupFinalStatus(w)
    \/ \E w \in WorkerID : CleanupWorkspace(w)
    \/ \E w \in WorkerID : CleanupCommitHash(w)
    \/ \E w \in WorkerID : CleanupMetadata(w)
    \/ \E w \in WorkerID : CleanupReread(w)
    \/ \E w \in WorkerID : CleanupExists(w)
    \/ \E w \in WorkerID : CleanupCreate(w)
    \/ \E w \in WorkerID : ReaderAppend(w)
    \/ \E c \in Conv : CancelGet(c)
    \/ CancelManager
    \/ CancelUpdate
    \/ CancelCleanup
    \/ \E c \in Conv : RetryGet(c)
    \/ RetryIsRunning
    \/ RetryCanExecute
    \/ RetryDelete
    \/ RetryReset
    \/ RetryRollback

Spec == Init /\ [][Next]_vars

\* ------------------------------- one conversation, caps of one and more
\* cfg.MaxConcurrentTasks is 1..MaxCapEM; a single conversation is created
InitCap ==
    /\ \E n \in 1..MaxCapEM : maxConcurrency = NewExecutionManager(n)
    /\ runningConversations = <<>>
    /\ currentCount = 0
    /\ InitRest
    /\ call = IdleCall
    /\ DOMAIN status = {1}

SpecCap == InitCap /\ [][Next]_vars

\* ----------------------- one conversation, containers that outlive a kill
\* As Spec with one conversation; a cancellation that kills the docker
\* client leaves the container running.
InitKill ==
    /\ Init
    /\ DOMAIN status = {1}

NextKill ==
    \/ Next
    \/ \E w \in WorkerID : WorkerKilled(w)
    \/ \E c \in Conv : ContainerWrite(c)
    \/ \E c \in Conv : ContainerExit(c)

SpecKill == InitKill /\ [][NextKill]_vars

\* ------------------------------------------- calls taken by themselves
\* The service at rest with one conversation: the state around a call of the
\* docker executor or of the workspace manager that is examined by itself.
QuietService ==
    /\ maxConcurrency = NewExecutionManager(MaxConcurrentTasks)
    /\ runningConversations = <<>>
    /\ currentCount = 0
    /\ InitRest
    /\ DOMAIN status = {1}
    /\ details = [c \in {1} |-> "ok"]

\* ------------------------------ dockerExecutor.ExecuteWithContainerTracking
\* ctx: the caller's context as the derived timeout context sees it (live,
\* cancelled by the caller, or timed out); container: the named container;
\* client: the `sh -c docker run` process; stopRan / rmRan: docker stop and
\* docker rm -f were run on the container name; hit: the context ended while
\* the client was running.
generateContainerName(taskID, id) == <<"xsha-task", taskID, "conv", id>>

NewTracking(taskID, id) ==
    [op |-> "track", pc |-> "check", name |-> generateContainerName(taskID, id),
     ctx |-> "live", container |-> "none",
     client |-> "none", waitErr |-> FALSE, stopRan |-> FALSE, rmRan |-> FALSE,
     hit |-> FALSE, err |-> FALSE]

InitTrack ==
    /\ QuietService
    /\ \E id \in Conv : call = NewTracking(1, id)

\* CheckAvailability
TrackCheck ==
    /\ call.pc = "check"
    /\ \E available \in BOOLEAN :
         call' = IF available THEN [call EXCEPT !.pc = "start"]
                 ELSE [call EXCEPT !.pc = "returned", !.err = TRUE]
    /\ UNCHANGED serviceVars

\* context.WithTimeout, the pipes, cmd.Start: Start fails when the context
\* has ended already
TrackStart ==
    /\ call.pc = "start"
    /\ \E ok \in BOOLEAN :
         call' = IF ok /\ call.ctx = "live"
                 THEN [call EXCEPT !.pc = "wait", !.client = "running",
                                   !.container = "running"]
                 ELSE [call EXCEPT !.pc = "returned", !.err = TRUE]
    /\ UNCHANGED serviceVars

\* the caller cancels, or the timeout expires
TrackContextEnds ==
    /\ call.pc \notin {"returned"}
    /\ call.ctx = "live"
    /\ \E how \in {"cancelled", "timeout"} :
         call' = [call EXCEPT !.ctx = how, !.hit = (call.client = "running")]
    /\ UNCHANGED serviceVars

\* exec.CommandContext kills the client when the context has ended and the
\* client has not exited before; the container is left as it is
TrackKill ==
    /\ call.ctx # "live"
    /\ call.client = "running"
    /\ call' = [call EXCEPT !.client = "killed"]
    /\ UNCHANGED serviceVars

\* the agent ends by itself: `--rm` removes the container, the client exits
TrackContainerEnds ==
    /\ call.container = "running"
    /\ call' = [call EXCEPT !.container = "removed",
                            !.client = IF @ = "running" THEN "exited" ELSE @]
    /\ UNCHANGED serviceVars

\* cmd.Wait returns once the client has ended: nil or an exit error for a
\* client that exited, an error for a killed one
TrackWait ==
    /\ call.pc = "wait"
    /\ call.client \in {"exited", "killed"}
    /\ \E e \in BOOLEAN :
         call' = [call EXCEPT !.pc = "select",
                              !.waitErr = (e \/ call.client = "killed")]
    /\ UNCHANGED serviceVars

TrackSelectOnError ==
    /\ call.pc = "select"
    /\ call' = [call EXCEPT !.pc = IF call.ctx # "live" /\ call.waitErr
                                   THEN "stop" ELSE "result"]
    /\ UNCHANGED serviceVars

\* select on ctx.Done()
TrackSelect ==
    /\ call.pc = "select"
    /\ call' = [call EXCEPT !.pc = IF call.ctx # "live" THEN "stop" ELSE "result"]
    /\ UNCHANGED serviceVars

\* StopAndRemoveContainer: docker stop; a failure is logged and ignored
TrackStop ==
    /\ call.pc = "stop"
    /\ \E ok \in BOOLEAN :
         call' = [call EXCEPT !.pc = "rm", !.stopRan = TRUE,
                              !.container = IF ok /\ @ = "running" THEN "removed" ELSE @]
    /\ UNCHANGED serviceVars

\* StopAndRemoveContainer: docker rm -f; its error is logged by the caller
TrackRemove ==
    /\ call.pc = "rm"
    /\ \E ok \in BOOLEAN :
         call' = [call EXCEPT !.pc = "result", !.rmRan = TRUE,
                              !.container = IF ok /\ @ = "running" THEN "removed" ELSE @]
    /\ UNCHANGED serviceVars

\* the error of Wait is returned with the container name
TrackReturn ==
    /\ call.pc = "result"
    /\ call' = [call EXCEPT !.pc = "returned", !.err = call.waitErr]
    /\ UNCHANGED serviceVars

NextTrack ==
    \/ TrackCheck
    \/ TrackStart
    \/ TrackContextEnds
    \/ TrackKill
    \/ TrackContainerEnds
    \/ TrackWait
    \/ TrackSelect
    \/ TrackStop
    \/ TrackRemove
    \/ TrackReturn

SpecTrack == InitTrack /\ [][NextTrack]_vars

\* ------------------------- the docker command and its parsing by sh -c
\* Strings are sequences of characters. DQ is the double quote, BS the
\* backslash, NL the newline, BT the backtick.
DQ == "dq"
BS == "bs"
NL == "nl"
BT == "bt"

ContentAlphabet == {"a", DQ, BS, "$", BT, NL, " "}

RECURSIVE Strings(_)
Strings(n) ==
    IF n = 0 THEN {<<>>}
    ELSE Strings(n - 1) \cup
         {Append(x, ch) : x \in {y \in Strings(n - 1) : Len(y) = n - 1},
                          ch \in ContentAlphabet}

\* strconv.Quote on these characters: the string in double quotes, with
\* \" for a double quote, \\ for a backslash and \n for a newline; the
\* other characters are printable and stay as they are
RECURSIVE QuoteChars(_)
QuoteChars(str) ==
    IF str = <<>> THEN <<>>
    ELSE LET ch == Head(str) IN
         (IF ch = DQ THEN <<BS, DQ>>
          ELSE IF ch = BS THEN <<BS, BS>>
          ELSE IF ch = NL THEN <<BS, "n">>
          ELSE <<ch>>) \o QuoteChars(Tail(str))

escapeShellArg(arg) == <<DQ>> \o QuoteChars(arg) \o <<DQ>>

\* the command up to the prompt: one word and the separating space stand
\* for `docker run ... <image> claude -p ...` joined with spaces
CommandHead == <<"d", " ">>

\* dockerExecutor.BuildCommand and its variants: the prompt is quoted
BuildCommand(content) == CommandHead \o escapeShellArg(content)

\* aiTaskExecutorService.buildDockerCommand: the prompt is joined as it is
buildDockerCommand(content) == CommandHead \o content

\* ---- sh: splitting one command line into the arguments of the command
NameChars == {"a", "d", "n"}

\* the values a parameter expansion or a command substitution may yield in
\* the shell's environment
Expansions == {<<>>, <<"a">>}

ShAt(cmd, i) == IF i <= Len(cmd) THEN cmd[i] ELSE "eof"

\* the position after the name that starts at i
RECURSIVE NameEnd(_, _)
NameEnd(cmd, i) ==
    IF ShAt(cmd, i) \in NameChars THEN NameEnd(cmd, i + 1) ELSE i

\* the position of the backtick that closes a command substitution whose
\* text starts at i (a backslash escapes the next character); 0 when none
RECURSIVE CloseTick(_, _)
CloseTick(cmd, i) ==
    IF i > Len(cmd) THEN 0
    ELSE IF cmd[i] = BT THEN i
    ELSE IF cmd[i] = BS THEN CloseTick(cmd, i + 2)
    ELSE CloseTick(cmd, i + 1)

NewQuote(r, content) ==
    [op |-> "quote", renderer |-> r, content |-> content, pc |-> "render",
     cmd |-> <<>>, pos |-> 1, mode |-> "plain", word |-> <<>>, inWord |-> FALSE,
     args |-> <<>>, failed |-> FALSE]

InitQuote ==
    /\ QuietService
    /\ \E r \in {"executor", "service"}, content \in Strings(MaxContentLen) \ {<<>>} :
         call = NewQuote(r, content)

\* the command string handed to `sh -c`
QuoteRender ==
    /\ call.op = "quote"
    /\ call.pc = "render"
    /\ call' = [call EXCEPT !.pc = "parse",
                            !.cmd = IF call.renderer = "executor"
                                    THEN BuildCommand(call.content)
                                    ELSE buildDockerCommand(call.content)]
    /\ UNCHANGED serviceVars

\* the word in progress, if any, becomes an argument
EndWord(st) ==
    IF st.inWord
    THEN [st EXCEPT !.args = Append(@, st.word), !.word = <<>>, !.inWord = FALSE]
    ELSE st

Take(st, chars, n) ==
    [st EXCEPT !.word = @ \o chars, !.inWord = TRUE, !.pos = @ + n]

\* $name expands to a value of the environment, `...` to the output of the
\* command; any other $ is literal
ShExpands(st) ==
    LET ch == st.cmd[st.pos]
        nx == ShAt(st.cmd, st.pos + 1) IN
    \/ ch = "$" /\ nx \in NameChars
    \/ ch = BT

ShExpand(st, v) ==
    LET ch == st.cmd[st.pos] IN
    IF ch = "$"
    THEN [st EXCEPT !.word = @ \o v,
                    !.inWord = (@ \/ v # <<>> \/ st.mode = "quoted"),
                    !.pos = NameEnd(st.cmd, st.pos + 1)]
    ELSE LET j == CloseTick(st.cmd, st.pos + 1) IN
         IF j = 0 THEN [st EXCEPT !.failed = TRUE, !.pc = "done"]
         ELSE [st EXCEPT !.word = @ \o v,
                         !.inWord = (@ \/ v # <<>> \/ st.mode = "quoted"),
                         !.pos = j + 1]

\* one character outside quotes
ShPlain(st) ==
    LET ch == st.cmd[st.pos]
        nx == ShAt(st.cmd, st.pos + 1) IN
    IF ch = " " THEN [EndWord(st) EXCEPT !.pos = @ + 1]
    ELSE IF ch = NL THEN [EndWord(st) EXCEPT !.pc = "done"]
    ELSE IF ch = DQ THEN [st EXCEPT !.mode = "quoted", !.inWord = TRUE, !.pos = @ + 1]
    ELSE IF ch = BS
         THEN IF nx = "eof" THEN Take(st, <<BS>>, 1)
              ELSE IF nx = NL THEN [st EXCEPT !.pos = @ + 2]
              ELSE Take(st, <<nx>>, 2)
    ELSE Take(st, <<ch>>, 1)

\* one character inside double quotes: a backslash escapes $ ` " \ and a
\* newline only, before any other character it stays
ShQuoted(st) ==
    LET ch == st.cmd[st.pos]
        nx == ShAt(st.cmd, st.pos + 1) IN
    IF ch = DQ THEN [st EXCEPT !.mode = "plain", !.pos = @ + 1]
    ELSE IF ch = BS
         THEN IF nx \in {"$", BT, DQ, BS} THEN Take(st, <<nx>>, 2)
              ELSE IF nx = NL THEN [st EXCEPT !.pos = @ + 2]
              ELSE Take(st, <<BS>>, 1)
    ELSE Take(st, <<ch>>, 1)

ShStep ==
    /\ call.op = "quote"
    /\ call.pc = "parse"
    /\ call.pos <= Len(call.cmd)
    /\ IF ShExpands(call)
       THEN \E v \in Expansions : call' = ShExpand(call, v)
       ELSE call' = IF call.mode = "plain" THEN ShPlain(call) ELSE ShQuoted(call)
    /\ UNCHANGED serviceVars

\* the end of the string: an open quote is a syntax error
ShEnd ==
    /\ call.op = "quote"
    /\ call.pc = "parse"
    /\ call.pos > Len(call.cmd)
    /\ call' = IF call.mode = "quoted"
               THEN [call EXCEPT !.failed = TRUE, !.pc = "done"]
               ELSE [EndWord(call) EXCEPT !.pc = "done"]
    /\ UNCHANGED serviceVars

NextQuote ==
    \/ QuoteRender
    \/ ShStep
    \/ ShEnd

SpecQuote == InitQuote /\ [][NextQuote]_vars

\* ------------------------------- WorkspaceManager.buildAuthenticatedURL
\* A URL is its parts as url.Parse gives them: scheme, userinfo (<<>> when
\* absent, else <<username, password>>), host (its labels) and path.
\* strings.ToLower on a label
ToLower(label) == IF label = "GitHub" THEN "github" ELSE label

\* strings.Contains(host, word) for a word without dots
ContainsWord(host, word) ==
    \E i \in 1..Len(host) : ToLower(host[i]) = word

\* strings.Contains(host, "a.b.c") for a dotted name
ContainsName(host, name) ==
    \E i \in 1..Len(host) :
        /\ i + Len(name) - 1 <= Len(host)
        /\ \A j \in 1..Len(name) : ToLower(host[i + j - 1]) = name[j]

RepoHosts ==
    {<<"github", "com">>, <<"GitHub", "com">>, <<"gitlab", "com">>,
     <<"gitlab", "example", "com">>, <<"bitbucket", "org">>,
     <<"dev", "azure", "com">>, <<"example", "visualstudio", "com">>,
     <<"azure", "com">>, <<"git", "example", "com">>,
     <<"gitlab", "github", "com">>}

RepoURLs ==
    [scheme : {"https", "http", "ssh", "git"},
     user : {<<>>, <<"git", "">>},
     host : RepoHosts,
     path : {"/o/r.git"}]

Credentials ==
    [type : {"token"}, username : {""}, password : {"", "tok"}]
    \cup [type : {"password"}, username : {"", "u"}, password : {"", "pw"}]
    \cup [type : {"ssh_key"}, username : {""}, password : {""}]

UserPassword(username, password) == <<username, password>>

\* the userinfo for a token, by host family, first match first
TokenUserFirstDefault(host, token) == UserPassword(token, "x-oauth-basic")

TokenUser(host, token) ==
    IF ContainsName(host, <<"github", "com">>) \/ ContainsWord(host, "github")
    THEN UserPassword(token, "x-oauth-basic")
    ELSE IF ContainsName(host, <<"gitlab", "com">>) \/ ContainsWord(host, "gitlab")
    THEN UserPassword("oauth2", token)
    ELSE IF ContainsName(host, <<"bitbucket", "org">>) \/ ContainsWord(host, "bitbucket")
    THEN UserPassword("x-token-auth", token)
    ELSE IF \/ ContainsName(host, <<"dev", "azure", "com">>)
            \/ ContainsName(host, <<"visualstudio", "com">>)
    THEN UserPassword("", token)
    ELSE UserPassword(token, "x-oauth-basic")

NewURLCall(u, cred) ==
    [op |-> "url", pc |-> "scheme", repoURL |-> u, credential |-> cred,
     parsedURL |-> u, failed |-> FALSE, out |-> u]

InitURL ==
    /\ QuietService
    /\ \E u \in RepoURLs, cred \in Credentials : call = NewURLCall(u, cred)

\* url.Parse and the scheme check
URLScheme ==
    /\ call.op = "url"
    /\ call.pc = "scheme"
    /\ call' = IF call.parsedURL.scheme \notin {"https", "http"}
               THEN [call EXCEPT !.pc = "returned", !.failed = TRUE]
               ELSE [call EXCEPT !.pc = "credential"]
    /\ UNCHANGED serviceVars

\* the switch on the credential type
URLCredential ==
    /\ call.op = "url"
    /\ call.pc = "credential"
    /\ LET cred == call.credential
           fail == [call EXCEPT !.pc = "returned", !.failed = TRUE] IN
       call' =
         IF cred.type = "password"
         THEN IF cred.password = "" \/ cred.username = "" THEN fail
              ELSE [call EXCEPT !.pc = "string",
                                !.parsedURL.user =
                                    UserPassword(cred.username, cred.password)]
         ELSE IF cred.type = "token"
         THEN IF cred.password = "" THEN fail
              ELSE [call EXCEPT !.pc = "string",
                                !.parsedURL.user =
                                    TokenUser(call.parsedURL.host, cred.password)]
         ELSE fail
    /\ UNCHANGED serviceVars

\* parsedURL.String()
URLString ==
    /\ call.op = "url"
    /\ call.pc = "string"
    /\ call' = [call EXCEPT !.pc = "returned", !.out = call.parsedURL]
    /\ UNCHANGED serviceVars

NextURL ==
    \/ URLScheme
    \/ URLCredential
    \/ URLString

SpecURL == InitURL /\ [][NextURL]_vars

\* --------------------------- WorkspaceManager.CloneRepositoryWithConfig
\* keyFile: <workspace>/.ssh_key exists; deferred: os.Remove(keyFile) is
\* deferred; gitRan: git clone was run with the key file in place; git: the
\* git subprocess; ctx: the context of the conversation whose worker calls.
CloneCredentials ==
    {[type |-> "none", username |-> "", password |-> "", privateKey |-> ""]}
    \cup [type : {"token"}, username : {""}, password : {"", "tok"}, privateKey : {""}]
    \cup [type : {"password"}, username : {"", "u"}, password : {"", "pw"},
          privateKey : {""}]
    \cup [type : {"ssh_key"}, username : {""}, password : {""},
          privateKey : {"", "text", "BEGIN PRIVATE KEY"}]

CloneURLs == {u \in RepoURLs : u.host = <<"github", "com">>}

\* validateCredential returns an error
CredentialInvalid(cred) ==
    IF cred.type = "password" THEN cred.username = "" \/ cred.password = ""
    ELSE IF cred.type = "token" THEN cred.password = ""
    ELSE IF cred.type = "ssh_key" THEN cred.privateKey # "BEGIN PRIVATE KEY"
    ELSE FALSE

NewCloneCall(u, cred) ==
    [op |-> "clone", pc |-> "validate", repoURL |-> u, credential |-> cred,
     keyFile |-> FALSE, written |-> FALSE, deferred |-> FALSE, gitRan |-> FALSE,
     git |-> "none", ctx |-> "live", failed |-> FALSE]

InitClone ==
    /\ QuietService
    /\ \E u \in CloneURLs, cred \in CloneCredentials : call = NewCloneCall(u, cred)

\* the function returns: the deferred os.Remove(keyFile) runs
CloneReturnKeepsKey(st, failed) ==
    [st EXCEPT !.pc = "returned", !.failed = failed]

CloneReturn(st, failed) ==
    [st EXCEPT !.pc = "returned", !.failed = failed,
               !.keyFile = IF st.deferred THEN FALSE ELSE @]

\* validateCredential and the switch on the credential type up to the git
\* command: buildAuthenticatedURL for password and token
CloneValidate ==
    /\ call.op = "clone"
    /\ call.pc = "validate"
    /\ LET cred == call.credential IN
       call' =
         IF cred.type # "none" /\ CredentialInvalid(cred) THEN CloneReturn(call, TRUE)
         ELSE IF cred.type \in {"password", "token"}
         THEN IF call.repoURL.scheme \notin {"https", "http"}
              THEN CloneReturn(call, TRUE)
              ELSE [call EXCEPT !.pc = "run"]
         ELSE IF cred.type = "ssh_key" THEN [call EXCEPT !.pc = "writeKey"]
         ELSE [call EXCEPT !.pc = "run"]
    /\ UNCHANGED serviceVars

\* ioutil.WriteFile(keyFile, ..., 0600) and `defer os.Remove(keyFile)`; when
\* the write fails the call returns before the defer statement
CloneWriteKey ==
    /\ call.op = "clone"
    /\ call.pc = "writeKey"
    /\ \E ok \in BOOLEAN, created \in BOOLEAN :
         call' = IF ok
                 THEN [call EXCEPT !.pc = "run", !.keyFile = TRUE, !.written = TRUE,
                                   !.deferred = TRUE]
                 ELSE CloneReturn([call EXCEPT !.keyFile = created], TRUE)
    /\ UNCHANGED serviceVars

\* cmd.Run, first half: git clone is started under the context made by
\* context.WithTimeout(context.Background(), gitCloneTimeout)
CloneStart ==
    /\ call.op = "clone"
    /\ call.pc = "run"
    /\ call' = [call EXCEPT !.pc = "wait", !.git = "running", !.gitRan = call.keyFile]
    /\ UNCHANGED serviceVars

\* git ends by itself and cmd.Run returns: success or failure; git refuses
\* a destination that is not empty, as it is with the key file in it
CloneGitExits ==
    /\ call.op = "clone"
    /\ call.pc = "wait"
    /\ \E ok \in BOOLEAN :
         /\ ok => ~call.keyFile
         /\ call' = CloneReturn([call EXCEPT !.git = "exited"], ~ok)
    /\ UNCHANGED serviceVars

\* the clone's own deadline passes: git is killed and cmd.Run returns
CloneTimeout ==
    /\ call.op = "clone"
    /\ call.pc = "wait"
    /\ call' = CloneReturn([call EXCEPT !.git = "timeout"], TRUE)
    /\ UNCHANGED serviceVars

\* CancelExecution calls the cancel function of the conversation while its
\* worker is inside the call
CloneConversationCancelled ==
    /\ call.op = "clone"
    /\ call.pc # "returned"
    /\ call.ctx = "live"
    /\ call' = [call EXCEPT !.ctx = "cancelled"]
    /\ UNCHANGED serviceVars

NextClone ==
    \/ CloneValidate
    \/ CloneWriteKey
    \/ CloneStart
    \/ CloneGitExits
    \/ CloneTimeout
    \/ CloneConversationCancelled

SpecClone == InitClone /\ [][NextClone]_vars

\* ------------------------- the workspace path of a task through one run
\* row: the task row's workspace path; taskPath: conv.Task.WorkspacePath, the
\* worker's copy; workspacePath: the local of executeTask; dirs: the
\* directories that exist under the base directory; clonePath, mountPath,
\* commitPath, cleanupPath: the path each stage was given ("" when not run).
\* run: the number of the run, which stands for its time.Now().Unix().
RecordedPath == "task-1-100"
CreatedPath(run) == IF run = 1 THEN "task-1-200" ELSE "task-1-300"

NewPathRun(run, row, dirs, gits) ==
    [op |-> "path", pc |-> "prepare", run |-> run, row |-> row, taskPath |-> row,
     dirs |-> dirs, gits |-> gits, workspacePath |-> "", clonePath |-> "",
     mountPath |-> "", commitPath |-> "", cleanupPath |-> "", finalStatus |-> ""]

\* the task never ran (no path), or ran before: its path is recorded, and
\* the directory is still there or has been removed since
\* (CleanupTaskWorkspace, or the base directory under /tmp was cleared)
InitPath ==
    /\ QuietService
    /\ \E row \in {"", RecordedPath}, there \in BOOLEAN, git \in BOOLEAN :
         /\ row = "" => ~there
         /\ ~there => ~git
         /\ call = NewPathRun(1, row, IF there THEN {RecordedPath} ELSE {},
                              IF git THEN {RecordedPath} ELSE {})

PathEnd(st, final) == [st EXCEPT !.pc = "cleanup", !.finalStatus = final]

\* GetOrCreateTaskWorkspace
GetOrCreateTaskWorkspace(existingPath, dirs, run) ==
    IF existingPath # "" /\ existingPath \in dirs THEN existingPath
    ELSE CreatedPath(run)

\* stage 1: GetOrCreateTaskWorkspace; the task row is updated when the
\* worker's copy of the path is empty, a store failure is logged and ignored
PathPrepare ==
    /\ call.op = "path"
    /\ call.pc = "prepare"
    /\ \E ok \in BOOLEAN, stored \in BOOLEAN :
         call' =
           IF ~ok THEN PathEnd(call, "failed")
           ELSE LET path == GetOrCreateTaskWorkspace(call.taskPath, call.dirs, call.run)
                    empty == call.taskPath = "" IN
                [call EXCEPT !.pc = "clone", !.workspacePath = path,
                             !.dirs = @ \cup {path},
                             !.taskPath = IF empty THEN path ELSE @,
                             !.row = IF empty /\ stored THEN path ELSE @]
    /\ UNCHANGED serviceVars

\* stage 2: CheckGitRepositoryExists(workspacePath), else the clone into it
PathClone ==
    /\ call.op = "path"
    /\ call.pc = "clone"
    /\ \E ok \in BOOLEAN :
         call' =
           LET st == [call EXCEPT !.clonePath = call.workspacePath] IN
           IF call.workspacePath \in call.gits
           THEN [st EXCEPT !.pc = "docker"]
           ELSE IF ok
           THEN [st EXCEPT !.pc = "docker", !.gits = @ \cup {call.workspacePath}]
           ELSE PathEnd(st, "failed")
    /\ UNCHANGED serviceVars

\* stage 3: buildDockerCommand(conv, workspacePath) mounts it at /app
PathDocker ==
    /\ call.op = "path"
    /\ call.pc = "docker"
    /\ \E outcome \in {"success", "failed", "cancelled"} :
         call' =
           LET st == [call EXCEPT !.mountPath = call.workspacePath] IN
           IF outcome = "success" THEN [st EXCEPT !.pc = "commit"]
           ELSE PathEnd(st, outcome)
    /\ UNCHANGED serviceVars

\* stage 4: CommitChanges(workspacePath, ...)
PathCommit ==
    /\ call.op = "path"
    /\ call.pc = "commit"
    /\ call' = PathEnd([call EXCEPT !.commitPath = call.workspacePath], "success")
    /\ UNCHANGED serviceVars

\* the deferred cleanup: CleanupWorkspaceOnFailure / OnCancel on
\* conv.Task.WorkspacePath when the run failed or was cancelled
PathCleanup ==
    /\ call.op = "path"
    /\ call.pc = "cleanup"
    /\ call' = [call EXCEPT !.pc = "returned",
                            !.cleanupPath =
                               IF call.finalStatus \in {"failed", "cancelled"}
                                  /\ call.taskPath # ""
                               THEN call.taskPath ELSE ""]
    /\ UNCHANGED serviceVars

\* the next conversation of the task is run: its worker gets the task row
\* as it is then
PathNextRun ==
    /\ call.op = "path"
    /\ call.pc = "returned"
    /\ call.run < MaxRuns
    /\ call' = NewPathRun(call.run + 1, call.row, call.dirs, call.gits)
    /\ UNCHANGED serviceVars

NextPath ==
    \/ PathNextRun
    \/ PathPrepare
    \/ PathClone
    \/ PathDocker
    \/ PathCommit
    \/ PathCleanup

SpecPath == InitPath /\ [][NextPath]_vars

\* ------------- the container run of executeTask and its final status
\* parent: the conversation's context; deadline: the timer of the context
\* derived from it inside executeDockerCommandWithContext; client: the
\* `sh -c docker run` process; stderr: the process wrote to stderr;
\* timeout: the configured duration, or the default when it does not parse.
NewRun(stderr, timeout) ==
    [op |-> "run", pc |-> "check", parent |-> "live", deadline |-> "idle",
     timeout |-> timeout, client |-> "none", stderr |-> stderr, err |-> "",
     finalStatus |-> ""]

InitRun ==
    /\ QuietService
    /\ \E stderr \in BOOLEAN, timeout \in {"configured", "30m"} :
         call = NewRun(stderr, timeout)

\* the context made by context.WithTimeout(ctx, timeout) is done
RunContextDone(st) == st.parent = "cancelled" \/ st.deadline = "expired"

\* checkDockerAvailability, then context.WithTimeout(ctx, timeout)
RunCheck ==
    /\ call.op = "run"
    /\ call.pc = "check"
    /\ \E available \in BOOLEAN :
         call' = IF available THEN [call EXCEPT !.pc = "start", !.deadline = "armed"]
                 ELSE [call EXCEPT !.pc = "select", !.err = "unavailable"]
    /\ UNCHANGED serviceVars

\* the pipes and cmd.Start, which fails on a context that is done
RunStart ==
    /\ call.op = "run"
    /\ call.pc = "start"
    /\ \E ok \in BOOLEAN :
         call' = IF ok /\ ~RunContextDone(call)
                 THEN [call EXCEPT !.pc = "wait", !.client = "running"]
                 ELSE [call EXCEPT !.pc = "select", !.err = "start"]
    /\ UNCHANGED serviceVars

\* CancelExecution calls the cancel function of the conversation
RunCallerCancels ==
    /\ call.op = "run"
    /\ call.pc # "returned"
    /\ call.parent = "live"
    /\ call' = [call EXCEPT !.parent = "cancelled"]
    /\ UNCHANGED serviceVars

\* the execution timeout passes
RunDeadline ==
    /\ call.op = "run"
    /\ call.pc \in {"start", "wait"}
    /\ call.deadline = "armed"
    /\ call' = [call EXCEPT !.deadline = "expired"]
    /\ UNCHANGED serviceVars

\* exec.CommandContext kills the client when its context is done
RunKill ==
    /\ call.op = "run"
    /\ call.client = "running"
    /\ RunContextDone(call)
    /\ call' = [call EXCEPT !.client = "killed"]
    /\ UNCHANGED serviceVars

\* the client ends by itself, with exit status 0 or not
RunClientExits ==
    /\ call.op = "run"
    /\ call.client = "running"
    /\ \E code \in {"exit0", "exit1"} : call' = [call EXCEPT !.client = code]
    /\ UNCHANGED serviceVars

\* cmd.Wait returns; an error is replaced by the captured stderr lines
RunWait ==
    /\ call.op = "run"
    /\ call.pc = "wait"
    /\ call.client \in {"exit0", "exit1", "killed"}
    /\ call' = [call EXCEPT !.pc = "select",
                            !.err = IF call.client = "exit0" THEN ""
                                    ELSE IF call.stderr THEN "stderr" ELSE "wait"]
    /\ UNCHANGED serviceVars

RunSelectDerivedContext ==
    /\ call.op = "run"
    /\ call.pc = "select"
    /\ call' = [call EXCEPT !.pc = "returned",
                            !.finalStatus =
                               IF call.err = "" THEN "continues"
                               ELSE IF RunContextDone(call) THEN "cancelled"
                               ELSE "failed"]
    /\ UNCHANGED serviceVars

\* executeTask: on an error the select on the conversation's ctx.Done()
\* decides between cancelled and failed; without one the run goes on
RunSelect ==
    /\ call.op = "run"
    /\ call.pc = "select"
    /\ call' = [call EXCEPT !.pc = "returned",
                            !.finalStatus =
                               IF call.err = "" THEN "continues"
                               ELSE IF call.parent = "cancelled" THEN "cancelled"
                               ELSE "failed"]
    /\ UNCHANGED serviceVars

NextRun ==
    \/ RunCheck
    \/ RunStart
    \/ RunCallerCancels
    \/ RunDeadline
    \/ RunKill
    \/ RunClientExits
    \/ RunWait
    \/ RunSelect

SpecRun == InitRun /\ [][NextRun]_vars

\* ------------------------------ dockerExecutor.StopAndRemoveContainer
\* Texts are sequences of words. container: the state of the named container
\* in the daemon; daemon: whether the daemon answers; cli: whether this
\* docker client reports a missing container on `rm -f` as a failure;
\* stopErr, rmErr: the errors of the two Run calls (<<>> is nil); rmStderr:
\* what docker rm wrote to its stderr, which Run does not capture.
NoSuchContainer == <<"No", "such", "container">>
MissingText(name) == <<"Error", "response", "from", "daemon:">> \o NoSuchContainer \o <<name>>
DaemonDownText == <<"Cannot", "connect", "to", "the", "Docker", "daemon">>

\* (*exec.ExitError).Error(): the process state, not the process's stderr
ExitErrorText(ended) ==
    IF ended = "exit0" THEN <<>>
    ELSE IF ended = "killed" THEN <<"signal:", "killed">>
    ELSE <<"exit", "status", "1">>

\* strings.Contains
Contains(text, phrase) ==
    \E i \in 1..Len(text) :
        /\ i + Len(phrase) - 1 <= Len(text)
        /\ SubSeq(text, i, i + Len(phrase) - 1) = phrase

NewStopCall(name, container, daemon, cli) ==
    [op |-> "stopRemove", pc |-> "stop", name |-> name, container |-> container,
     daemon |-> daemon, cli |-> cli, stopErr |-> <<>>, rmErr |-> <<>>,
     rmStderr |-> <<>>, result |-> "none", logged |-> ""]

InitStop ==
    /\ QuietService
    /\ \E id \in Conv, container \in {"running", "exited", "absent"},
          daemon \in {"up", "down"}, cli \in {"fails on missing", "quiet on missing"} :
         call = NewStopCall(generateContainerName(1, id), container, daemon, cli)

\* `docker stop <name>` under a 10 s context; a container started with --rm
\* is removed by the daemon once it has stopped. The error is logged only.
StopRun ==
    /\ call.op = "stopRemove"
    /\ call.pc = "stop"
    /\ \E ended \in {"exit0", "exit1", "killed"}, removed \in BOOLEAN :
         /\ ended = "exit0" <=> (call.daemon = "up" /\ call.container # "absent")
         /\ ended = "killed" => (call.daemon = "up" /\ call.container = "running")
         /\ call' = [call EXCEPT !.pc = "rm", !.stopErr = ExitErrorText(ended),
                                 !.container =
                                    IF ended = "exit0" /\ removed THEN "absent"
                                    ELSE IF ended = "exit0" THEN "exited" ELSE @]
    /\ UNCHANGED serviceVars

\* `docker rm -f <name>` under a 5 s context
StopRemove ==
    /\ call.op = "stopRemove"
    /\ call.pc = "rm"
    /\ \E ended \in {"exit0", "exit1", "killed"} :
         /\ ended = "exit1" <=>
               \/ call.daemon = "down"
               \/ call.container = "absent" /\ call.cli = "fails on missing"
         /\ ended = "killed" => call.container # "absent"
         /\ LET err == ExitErrorText(ended)
                text == IF ended # "exit1" THEN <<>>
                        ELSE IF call.daemon = "down" THEN DaemonDownText
                        ELSE MissingText(call.name) IN
            call' = [call EXCEPT !.pc = "decide", !.rmErr = err, !.rmStderr = text,
                                 !.container = IF ended = "exit0" THEN "absent" ELSE @]
    /\ UNCHANGED serviceVars

\* the return value: nil, also for an error whose text contains
\* "No such container", else the wrapped error
StopReturn ==
    /\ call.op = "stopRemove"
    /\ call.pc = "decide"
    /\ call' = [call EXCEPT !.pc = "returned",
                            !.result =
                               IF call.rmErr = <<>> THEN "nil"
                               ELSE IF Contains(call.rmErr, NoSuchContainer) THEN "nil"
                               ELSE "error"]
    /\ UNCHANGED serviceVars

\* the caller, ExecuteWithContainerTracking, appends what came back to the
\* execution log
StopLogged ==
    /\ call.op = "stopRemove"
    /\ call.pc = "returned"
    /\ call' = [call EXCEPT !.pc = "logged",
                            !.logged = IF call.result = "error"
                                       THEN "Failed to cleanup container"
                                       ELSE "Container cleaned up successfully"]
    /\ UNCHANGED serviceVars

NextStop ==
    \/ StopRun
    \/ StopRemove
    \/ StopReturn
    \/ StopLogged

SpecStop == InitStop /\ [][NextStop]_vars

\* ------------------- the two renderings of the docker command of a run
\* An environment maps variable names to values (sequences of characters);
\* a rendered command is the sequence of its -e flags, each a name and a
\* value, in the order the map was ranged over.
EnvKeys == {"TOKEN", "KEY"}
EnvValues == {<<"a", "b", "x", "c", "d">>, <<"a", "b", "y", "c", "d">>,
              <<"p", "q", "x", "r", "s">>, <<"p", "q", "y", "r", "s">>}

Environments ==
    UNION {[ks -> EnvValues] : ks \in (SUBSET EnvKeys) \ {{}}}

\* utils.MaskSensitiveValue: the first two and the last two characters stay,
\* each character between them becomes "*"; a value too short to have a
\* middle is all "*"
MaskSensitiveValue(value) ==
    IF Len(value) <= 4 THEN [i \in 1..Len(value) |-> "*"]
    ELSE [i \in 1..Len(value) |->
             IF i <= 2 \/ i > Len(value) - 2 THEN value[i] ELSE "*"]

\* the orders `for key, value := range envVars` may take
RangeOrders(env) ==
    {o \in [1..Cardinality(DOMAIN env) -> DOMAIN env] :
        \A k \in DOMAIN env : \E i \in DOMAIN o : o[i] = k}

\* buildDockerCommand: -e key=value
ExecutionForm(env, order) ==
    [i \in DOMAIN order |-> [key |-> order[i], value |-> env[order[i]]]]

\* buildDockerCommandForLog: -e key=masked value
AuditForm(env, order) ==
    [i \in DOMAIN order |->
        [key |-> order[i], value |-> MaskSensitiveValue(env[order[i]])]]

\* the two environments differ at most in characters the mask replaces
SameButMasked(e1, e2) ==
    /\ DOMAIN e1 = DOMAIN e2
    /\ \A k \in DOMAIN e1 : MaskSensitiveValue(e1[k]) = MaskSensitiveValue(e2[k])

NewAudit(e1, e2) ==
    [op |-> "audit", pc |-> "build", run |-> 1, envs |-> <<e1, e2>>,
     dockerCmd |-> <<>>, dockerCmdForLog |-> <<>>,
     docker_command |-> <<>>, log |-> <<>>, shell |-> <<>>]

InitAudit ==
    /\ QuietService
    /\ \E e1 \in Environments, e2 \in Environments :
         /\ SameButMasked(e1, e2)
         /\ call = NewAudit(e1, e2)

\* dockerCmd := s.buildDockerCommand(conv, workspacePath)
AuditBuild ==
    /\ call.op = "audit"
    /\ call.pc = "build"
    /\ \E order \in RangeOrders(call.envs[call.run]) :
         call' = [call EXCEPT !.pc = "buildForLog",
                              !.dockerCmd = ExecutionForm(call.envs[call.run], order)]
    /\ UNCHANGED serviceVars

\* dockerCmdForLog := s.buildDockerCommandForLog(conv, workspacePath)
AuditBuildForLog ==
    /\ call.op = "audit"
    /\ call.pc = "buildForLog"
    /\ \E order \in RangeOrders(call.envs[call.run]) :
         call' = [call EXCEPT !.pc = "persist",
                              !.dockerCmdForLog = AuditForm(call.envs[call.run], order)]
    /\ UNCHANGED serviceVars

AuditPersistExecutionForm ==
    /\ call.op = "audit"
    /\ call.pc = "persist"
    /\ call' = [call EXCEPT !.pc = "appendLog",
                            !.docker_command = Append(@, call.dockerCmd)]
    /\ UNCHANGED serviceVars

\* UpdateMetadata with docker_command: dockerCmdForLog
AuditPersist ==
    /\ call.op = "audit"
    /\ call.pc = "persist"
    /\ call' = [call EXCEPT !.pc = "appendLog",
                            !.docker_command = Append(@, call.dockerCmdForLog)]
    /\ UNCHANGED serviceVars

\* appendLog: the line that echoes the command
AuditAppendLog ==
    /\ call.op = "audit"
    /\ call.pc = "appendLog"
    /\ call' = [call EXCEPT !.pc = "execute",
                            !.log = Append(@, call.dockerCmdForLog)]
    /\ UNCHANGED serviceVars

\* executeDockerCommandWithContext(ctx, dockerCmd, ...): sh -c dockerCmd;
\* then the second run begins
AuditExecute ==
    /\ call.op = "audit"
    /\ call.pc = "execute"
    /\ call' = [call EXCEPT !.pc = IF call.run = 1 THEN "build" ELSE "done",
                            !.run = IF call.run = 1 THEN 2 ELSE @,
                            !.shell = Append(@, call.dockerCmd)]
    /\ UNCHANGED serviceVars

NextAudit ==
    \/ AuditBuild
    \/ AuditBuildForLog
    \/ AuditPersist
    \/ AuditAppendLog
    \/ AuditExecute

SpecAudit == InitAudit /\ [][NextAudit]_vars

\* ------------------------------- the result parsing of one finished run
\* A worker of conversation 1 whose cleanup has released the slot and has
\* persisted the final status and the metadata; its log was deleted by a
\* retry or holds up to MaxParseLines lines; a result row of an earlier run
\* exists or not.
ParseWorker == <<1, 1>>

ParseLog == <<1, 2>>

InitParse ==
    /\ maxConcurrency = NewExecutionManager(MaxConcurrentTasks)
    /\ runningConversations = <<>>
    /\ currentCount = 0
    /\ ctxDone = {}
    /\ \E st \in Terminal, lines \in ParseLogs(MaxParseLines), row \in BOOLEAN,
          had \in BOOLEAN :
         /\ status = [c \in {1} |-> st]
         /\ workers = Put(<<>>, ParseWorker,
                          [NewWorker(1, ParseLog, TRUE) EXCEPT
                              !.pc = "reread", !.finalStatus = st,
                              !.errorMsg = (st # "success")])
         /\ execLogs = IF row
                       THEN Put(<<>>, ParseLog,
                                [NewLog(1, "") EXCEPT !.lines = lines,
                                                      !.completed_at = TRUE])
                       ELSE <<>>
         /\ results = [c \in Conv |-> IF c = 1 /\ had THEN << <<1, 1>> >> ELSE <<>>]
         /\ wsGit = [c \in Conv |-> c = 1 /\ st = "success"]
    /\ details = [c \in {1} |-> "ok"]
    /\ requests = 1
    /\ commit_hash = [c \in Conv |-> ""]
    /\ task_workspace_path = [c \in Conv |-> c = 1]
    /\ nextLogID = [c \in Conv |-> IF c = 1 THEN 3 ELSE 1]
    /\ wsDirty = [c \in Conv |-> FALSE]
    /\ tick = IdleTick
    /\ procs = <<>>
    /\ cancelOp = IdleOp
    /\ retryOp = IdleOp
    /\ cancelledLive = [c \in Conv |-> FALSE]
    /\ orphan = [c \in Conv |-> FALSE]
    /\ call = IdleCall

NextParse ==
    \/ CleanupReread(ParseWorker)
    \/ CleanupExists(ParseWorker)
    \/ CleanupCreate(ParseWorker)

SpecParse == InitParse /\ [][NextParse]_vars

\* ------------------------------------- the system with a recurring ticker
\* The ticker fires again and again (a tick is not counted as a request);
\* the conversations created and the cancels and retries made are LiveLoad
\* at most.
TickRecurring == TickFetch /\ UNCHANGED requests

TickStep == TickRecurring \/ TickCanExecute \/ TickIsRunning

OpBudget == requests < LiveLoad

ProcStep ==
    \E k \in ProcKey :
        \/ ProcValidate(k) \/ ProcFailedLog(k) \/ ProcCreateLog(k)
        \/ ProcAdmit(k) \/ ProcRollbackStatus(k) \/ ProcRollbackLog(k)

WorkerStep ==
    \E w \in WorkerID :
        \/ WorkerStart(w) \/ WorkerPrepare(w) \/ WorkerCheck2(w) \/ WorkerClone(w)
        \/ WorkerDocker(w) \/ WorkerWait(w) \/ WorkerCommit(w)
        \/ CleanupRemove(w) \/ CleanupFinalStatus(w) \/ CleanupWorkspace(w)
        \/ CleanupCommitHash(w) \/ CleanupMetadata(w) \/ CleanupReread(w)
        \/ CleanupExists(w) \/ CleanupCreate(w)

ReaderStep == \E w \in WorkerID : ReaderAppend(w)

CancelStep == CancelManager \/ CancelUpdate \/ CancelCleanup

RetryStep == RetryIsRunning \/ RetryCanExecute \/ RetryDelete \/ RetryReset \/ RetryRollback

NextLive ==
    \/ TickStep
    \/ ProcStep
    \/ WorkerStep
    \/ ReaderStep
    \/ (OpBudget /\ \E c \in Conv : CancelGet(c))
    \/ CancelStep
    \/ (OpBudget /\ \E c \in Conv : RetryGet(c))
    \/ RetryStep

\* the ticker keeps firing, and as long as some goroutine other than a pipe
\* reader can take a step, one of them eventually does (every container run
\* ends: cmd.Wait returns)
Fairness ==
    /\ WF_vars(TickStep)
    /\ WF_vars(ProcStep \/ WorkerStep \/ CancelStep \/ RetryStep)

SpecLive == Init /\ [][NextLive]_vars /\ Fairness

\* C1: under every interleaving of AddExecution, RemoveExecution and
\* CancelExecution calls, 0 <= GetRunningCount() <= maxConcurrency.
C1_CountWithinCap == 0 <= GetRunningCount /\ GetRunningCount <= maxConcurrency

\* the cap is reached while an id was added twice (one entry, two slots)
C1_Witness ==
    /\ currentCount = maxConcurrency
    /\ Cardinality(DOMAIN runningConversations) < currentCount
    /\ ctxDone # {}

\* C2: at every instant the number of conversations that have a worker
\* launched and not yet returned from its deferred cleanup is at most
\* maxConcurrency.
C2_LiveWorkersWithinCap ==
    Cardinality({c \in Conv : LiveWorkersOf(c) # {}}) <= maxConcurrency

\* C3: a conversation's persisted status is running if and only if the
\* registry of the ExecutionManager contains its id.
C3_RunningIffRegistered ==
    \A c \in DOMAIN status : (status[c] = "running") <=> IsRunning(c)

\* C4: the persisted status changes only along pending -> running,
\* running -> success / failed / cancelled, running -> pending,
\* pending -> failed, pending -> cancelled and failed / cancelled -> pending;
\* a persisted terminal status is never replaced by running or by another
\* terminal status.
StatusEdges ==
    {<<"pending", "running">>, <<"running", "success">>, <<"running", "failed">>,
     <<"running", "cancelled">>, <<"running", "pending">>, <<"pending", "failed">>,
     <<"pending", "cancelled">>, <<"failed", "pending">>, <<"cancelled", "pending">>}

C4_StatusEdgesOnly ==
    [][\A c \in DOMAIN status :
         status'[c] # status[c] => <<status[c], status'[c]>> \in StatusEdges]_vars

\* C5: in every state a conversation whose commit_hash is non-empty has
\* status success.
C5_HashOnlyWithSuccess ==
    \A c \in DOMAIN status : commit_hash[c] # "" => status[c] = "success"

\* C6: for every conversation, at every instant, at most one execution-log
\* row exists.
C6_AtMostOneLog == \A c \in Conv : Cardinality(LogsOf(c)) <= 1

C8_CancelledOnceBothDone ==
    \A c \in DOMAIN status :
        ( /\ cancelledLive[c]
          /\ LiveWorkersOf(c) = {}
          /\ \A k \in DOMAIN procs : procs[k].conv # c
          /\ cancelOp.conv # c
          /\ retryOp.conv # c )
        => status[c] = "cancelled"

\* C9: a pipe reader never appends a line to the log of a run after the
\* worker's cleanup has set completed_at on it.
C9_NoAppendAfterCompleted ==
    [][\A id \in DOMAIN execLogs \cap DOMAIN execLogs' :
         execLogs'[id].lines # execLogs[id].lines => ~execLogs[id].completed_at]_vars

\* C10: at most one worker operates on the workspace of a task at any
\* instant (every conversation here belongs to a task of its own).
WorkspaceStages == {"prepare", "clone", "running", "commit", "wsCleanup"}

C10_OneWorkerPerWorkspace ==
    \A c \in Conv :
        Cardinality({w \in LiveWorkersOf(c) : workers[w].pc \in WorkspaceStages}) <= 1

C12_NoSlotLeaked ==
    (workers = <<>> /\ procs = <<>>) => (GetRunningCount = 0 /\ CanExecute)

\* C13: AddExecution inserts the cancel handle and increments the counter
\* only when count < cap and the id is absent; for an id that is already
\* registered it leaves the map and the counter unchanged.
C13_AddOnlyWhenAbsent ==
    [][currentCount' > currentCount =>
         /\ currentCount < maxConcurrency
         /\ \E id \in Conv : /\ id \notin DOMAIN runningConversations
                             /\ id \in DOMAIN runningConversations']_vars

\* C14: within one tick the admitted conversations are a prefix of the
\* pending-query order: no conversation of the query result is registered
\* while the processConversation call of an earlier one has been refused
\* admission.
C14_AdmittedArePrefix ==
    \A i, j \in 1..Len(tick.list) :
        ( /\ i < j
          /\ tick.list[i].id \in DOMAIN procs
          /\ procs[tick.list[i].id].pc \in {"rollbackStatus", "rollbackLog"} )
        => LiveWorkersOf(tick.list[j].id) = {}

\* C15: RetryExecution goes on only from status failed or cancelled; it is
\* rejected when IsRunning(id) is true or CanExecute() is false, and goes on
\* otherwise; a rejected retry leaves the conversation status, the
\* execution-log rows and the registry unchanged.
RetryRejectedCleanly ==
    /\ retryOp' = IdleOp
    /\ UNCHANGED <<status, execLogs, runningConversations, currentCount>>

C15_RetryRejection ==
    [][/\ (retryOp.pc = "idle" /\ retryOp'.pc # "idle") =>
             /\ retryOp'.pc = "isRunning"
             /\ status[retryOp'.conv] \in {"failed", "cancelled"}
       /\ (retryOp.pc = "isRunning" /\ retryOp' # retryOp) =>
             IF IsRunning(retryOp.conv) THEN RetryRejectedCleanly
             ELSE retryOp'.pc = "canExecute"
       /\ (retryOp.pc = "canExecute" /\ retryOp' # retryOp) =>
             IF ~CanExecute THEN RetryRejectedCleanly
             ELSE retryOp'.pc = "delete" /\ UNCHANGED execLogs]_vars

\* a retry of a cancelled conversation that has a log row and is still
\* registered is about to be rejected by the IsRunning check
C15_Witness ==
    /\ retryOp.pc = "isRunning"
    /\ IsRunning(retryOp.conv)
    /\ LogsOf(retryOp.conv) # {}

\* C16: CancelExecution goes on only from status pending or running (else it
\* returns an error and changes nothing); when accepted it invokes the
\* registered cancel handle if there is one, and persists status cancelled.
C16_CancelAcceptance ==
    [][/\ (cancelOp.pc = "idle" /\ cancelOp'.pc # "idle") =>
             /\ cancelOp'.pc = "emCancel"
             /\ status[cancelOp'.conv] \in {"pending", "running"}
             /\ UNCHANGED <<status, runningConversations, currentCount, wsDirty>>
       /\ (cancelOp.pc = "emCancel" /\ cancelOp' # cancelOp) =>
             /\ cancelOp'.pc = "update"
             /\ IF IsRunning(cancelOp.conv)
                THEN runningConversations[cancelOp.conv] \in ctxDone'
                ELSE UNCHANGED <<ctxDone, runningConversations, currentCount>>
       /\ (cancelOp.pc = "update" /\ cancelOp' # cancelOp) =>
             status'[cancelOp.conv] = "cancelled"]_vars

\* a cancel of a registered conversation has invoked the handle of its
\* worker and has persisted cancelled
C16_Witness ==
    \E w \in DOMAIN workers :
        /\ w \in ctxDone
        /\ status[workers[w].conv] = "cancelled"
        /\ cancelOp.pc = "idle"

\* C17: for a conversation that lacks its task, its project or its
\* development environment (checked in that order) processConversation sets
\* status failed, creates an execution-log row with the matching
\* error_message and returns an error; the conversation is not registered,
\* has no worker, and no workspace is created for it.
ExpectedValidationMessage(d) ==
    CASE d = "noTask" -> "missing task"
      [] d \in {"noProject", "noProjectNoEnv"} -> "missing project"
      [] d = "noEnv" -> "no development environment"

C17_PreconditionFailure ==
    [][\A k \in DOMAIN procs :
         LET c == procs[k].conv IN
         details[c] # "ok" =>
           /\ c \notin DOMAIN runningConversations'
           /\ \A w \in DOMAIN workers' : workers'[w].conv # c
           /\ ~task_workspace_path'[c] /\ ~wsGit'[c] /\ ~wsDirty'[c]
           /\ (procs[k].pc = "validate" /\ k \in DOMAIN procs' /\ procs'[k] # procs[k]) =>
                 /\ status'[c] = "failed"
                 /\ procs'[k].pc = "failedLog"
           /\ procs[k].pc \in {"validate", "failedLog"}
           /\ (procs[k].pc = "failedLog" /\ k \notin DOMAIN procs') =>
                 /\ \E id \in DOMAIN execLogs' \ DOMAIN execLogs :
                       /\ execLogs'[id].conv = c
                       /\ execLogs'[id].error_message = ExpectedValidationMessage(details[c])
                 /\ (k = RetryKey => retryOp'.pc = "rollback")]_vars

\* a conversation that lacks both project and environment has failed with
\* the project's message
C17_Witness ==
    \E id \in DOMAIN execLogs :
        /\ details[execLogs[id].conv] = "noProjectNoEnv"
        /\ status[execLogs[id].conv] = "failed"
        /\ execLogs[id].error_message = "missing project"
        /\ procs = <<>>

C19_CommitFailureIgnored ==
    [][/\ \A w \in DOMAIN workers :
             LET c == workers[w].conv IN
             /\ (workers[w].pc = "commit" /\
                   (w \notin DOMAIN workers' \/ workers'[w].pc # "commit")) =>
                   /\ w \in DOMAIN workers'
                   /\ workers'[w].pc = "remove"
                   /\ workers'[w].finalStatus = "success"
                   /\ ~wsDirty[c] => workers'[w].commitHash = ""
                   /\ commit_hash' = commit_hash
             /\ (workers[w].pc = "finalStatus" /\ workers[w].finalStatus = "success" /\
                   (w \notin DOMAIN workers' \/ workers'[w].pc # "finalStatus")) =>
                   /\ status'[c] = "success"
                   /\ w \in DOMAIN workers'
                   /\ workers'[w].pc = IF workers[w].commitHash = ""
                                       THEN "metadata" ELSE "commitHash"
             /\ workers[w].commitHash # "" => workers[w].finalStatus = "success"
       /\ commit_hash' # commit_hash =>
             \E w \in DOMAIN workers :
                /\ workers[w].pc = "commitHash"
                /\ workers[w].commitHash # ""
                /\ commit_hash' = [commit_hash EXCEPT ![workers[w].conv] =
                                                        workers[w].commitHash]]_vars

\* a run ended in success although its commit failed with changes in the
\* workspace: success is persisted, no hash is recorded
C19_Witness ==
    \E c \in DOMAIN status :
        /\ status[c] = "success"
        /\ commit_hash[c] = ""
        /\ wsDirty[c]
        /\ workers = <<>>

\* C20: whatever the execution log holds, the result parsing at the end of
\* the worker's cleanup does not abort the worker (no panic), and the final
\* status the cleanup has persisted stays as it is.
C20_ParsingNeverAborts ==
    \A w \in DOMAIN workers :
        workers[w].pc \in {"reread", "exists", "create", "panic"} =>
            /\ workers[w].pc # "panic"
            /\ status[workers[w].conv] = workers[w].finalStatus

\* C21: for every log handed to parseExecutionResult, the value returned is
\* the object of the last line whose JSON part decodes to an object with
\* type "result", a subtype, a boolean is_error and a non-empty string
\* session_id; nothing is returned when no line qualifies.
Qualifies(line) ==
    /\ line.json = "object"
    /\ line.type = "result"
    /\ ResultFields \subseteq line.fields
    /\ line.typed

C21_ReturnsLastQualifying ==
    \A w \in DOMAIN workers :
        (workers[w].pc = "reread" /\ workers[w].log \in DOMAIN execLogs) =>
            LET lines == execLogs[workers[w].log].lines
                q == {i \in 1..Len(lines) : Qualifies(lines[i])}
                r == parseExecutionResult(lines)
            IN  IF q = {} THEN r.outcome = "none"
                ELSE /\ r.outcome = "found"
                     /\ r.line \in q
                     /\ \A i \in q : i <= r.line

\* C22: once a retried conversation's run has ended in success and its
\* execution log (the only row left after the retry deleted the earlier
\* ones) holds a valid result line, the conversation has at most one result
\* row and every result row it has was parsed from that log, not from the
\* log of an earlier run.
C22_ResultIsTheRetrys ==
    \A c \in DOMAIN status :
        \A id \in LogsOf(c) :
            (/\ status[c] = "success"
             /\ LiveWorkersOf(c) = {}
             /\ LogsOf(c) = {id}
             /\ id[2] > 1
             /\ execLogs[id].completed_at
             /\ ParseFindsResult(execLogs[id].lines)) =>
                /\ Len(results[c]) <= 1
                /\ \A n \in 1..Len(results[c]) : results[c][n] = id

\* C23: when the run of a conversation ended as cancelled after its
\* container had been started, then at the moment its worker finishes the
\* cleanup with CancelExecution already returned (and no other worker of
\* the conversation live), no container of the conversation is running and
\* the task workspace is clean.
C23_CancelLeavesNothingRunning ==
    [][\A w \in DOMAIN workers :
         LET c == workers[w].conv IN
         ( /\ w \notin DOMAIN workers'
           /\ workers[w].finalStatus = "cancelled"
           /\ workers[w].container # "none"
           /\ LiveWorkersOf(c) = {w}
           /\ cancelOp'.conv # c )
         => (~orphan'[c] /\ ~wsDirty'[c])]_vars

\* C24: when the caller's context ended while the docker client of
\* ExecuteWithContainerTracking was running, the call has run docker stop
\* and docker rm -f on the container name by the time it returns, whether
\* Wait returned an error or not.
C24_CleanupBeforeReturn ==
    (call.op = "track" /\ call.pc = "returned" /\ call.hit) =>
        (call.stopRan /\ call.rmRan)

\* the call has returned after a cancellation during the run although Wait
\* returned no error
C24_Witness ==
    /\ call.op = "track"
    /\ call.pc = "returned"
    /\ call.hit
    /\ ~call.waitErr
    /\ call.stopRan /\ call.rmRan

\* C25: for every content, once sh has parsed the rendered command, the
\* parse has not failed and the arguments are the command word followed by
\* one prompt argument equal to the content.
C25_QuotingLossless ==
    (call.op = "quote" /\ call.pc = "done") =>
        /\ ~call.failed
        /\ call.args = <<SubSeq(CommandHead, 1, 1), call.content>>

\* C26: for a token credential, buildAuthenticatedURL fails for an empty
\* token and for a scheme other than http and https; otherwise it returns
\* the URL with the userinfo of the host's family (token:x-oauth-basic for
\* GitHub, oauth2:token for GitLab, x-token-auth:token for Bitbucket, :token
\* for dev.azure.com and visualstudio.com, token:x-oauth-basic for any other
\* host) and with scheme, host and path unchanged.
HostFamilies(host) ==
    {f \in {"github", "gitlab", "bitbucket"} : ContainsWord(host, f)}
    \cup (IF \/ ContainsName(host, <<"dev", "azure", "com">>)
             \/ ContainsName(host, <<"visualstudio", "com">>)
          THEN {"azure"} ELSE {})

ExpectedUserinfo(family, token) ==
    IF family = "github" THEN <<token, "x-oauth-basic">>
    ELSE IF family = "gitlab" THEN <<"oauth2", token>>
    ELSE IF family = "bitbucket" THEN <<"x-token-auth", token>>
    ELSE IF family = "azure" THEN <<"", token>>
    ELSE <<token, "x-oauth-basic">>

C27_KeyFileGoneOnReturn ==
    (call.op = "clone" /\ call.pc = "returned" /\ call.written) => ~call.keyFile

\* the call has returned after git clone ran with the key file in place
C27_Witness ==
    /\ call.op = "clone"
    /\ call.pc = "returned"
    /\ call.written
    /\ call.gitRan
    /\ call.failed
    /\ ~call.keyFile

\* C28: a scheduler tick has returned as soon as its loop is over and every
\* processConversation it spawned has returned; it is never still in
\* ProcessPendingConversations only because a worker is running.
C28_TickWaitsOnlyForProcs ==
    tick.pc # "idle" => (tick.i <= Len(tick.list) \/ DOMAIN procs \cap Conv # {})

\* the only tick so far has returned while the worker it launched is in the
\* container run
C28_Witness ==
    /\ tick = IdleTick
    /\ \E n \in 1..NumConv : DOMAIN status = 1..n /\ requests = n + 1
    /\ DOMAIN procs = {}
    /\ \E w \in DOMAIN workers : workers[w].pc = "running"

\* C29: once the context of a conversation has been cancelled its worker
\* starts no later stage: a worker that stands before the commit stage with
\* its context cancelled makes no commit and ends with status cancelled.
C29_NoCommitAfterCancel ==
    [][\A w \in DOMAIN workers \cap DOMAIN workers' :
          (/\ workers[w].pc = "commit"
           /\ w \in ctxDone
           /\ workers'[w].pc # "commit")
          => /\ workers'[w].commitHash = ""
             /\ workers'[w].finalStatus = "cancelled"]_vars

\* C30: after CancelExecution has returned for a conversation that was
\* pending and never admitted (status cancelled, no log row was ever created
\* for it, no worker), the status stays cancelled unless a retry takes the
\* conversation up, and no worker is launched for it.
C30_CancelledPendingStays ==
    [][\A c \in DOMAIN status :
          (/\ status[c] = "cancelled"
           /\ nextLogID[c] = 1
           /\ cancelOp.conv # c
           /\ retryOp.conv # c
           /\ LiveWorkersOf(c) = {})
          => /\ status'[c] = "cancelled" \/ retryOp'.conv = c
             /\ \A w \in DOMAIN workers' : workers'[w].conv # c]_vars

\* C31: the deferred cleanup of a cancelled run affects only that run: its
\* RemoveExecution does not unregister a later run of the same conversation,
\* and its final status write does not change the status while a later run
\* of the conversation is registered.
C31_CleanupAffectsOwnRun ==
    [][\A w \in DOMAIN workers \cap DOMAIN workers' :
          LET c == workers[w].conv
              later == c \in DOMAIN runningConversations
                       /\ runningConversations[c] # w
                       /\ runningConversations[c] \in DOMAIN workers IN
          (w \in ctxDone /\ workers[w].finalStatus = "cancelled" /\ later) =>
             /\ (workers[w].pc = "remove" /\ workers'[w].pc = "finalStatus")
                   => c \in DOMAIN runningConversations'
             /\ (workers[w].pc = "finalStatus" /\ workers'[w].pc # "finalStatus")
                   => status'[c] = status[c]]_vars

\* C32: when processConversation has failed inside RetryExecution, the
\* conversation's status is failed and no run of it is registered or at work
\* at the moment RetryExecution returns.
C32_FailedRetryLeavesNoRun ==
    [][(retryOp.pc = "rollback" /\ retryOp'.pc = "idle") =>
          LET c == retryOp.conv IN
          /\ status'[c] = "failed"
          /\ c \notin DOMAIN runningConversations'
          /\ \A w \in DOMAIN workers' :
                workers'[w].conv = c => workers'[w].finalStatus # ""]_vars

\* C33: once the conversation's context has been cancelled, a git clone in
\* progress neither runs to completion nor to its own timeout.
C33_CancelStopsClone ==
    [][(call.op = "clone" /\ call.ctx = "cancelled" /\ call.git = "running")
          => call'.git \notin {"exited", "timeout"}]_vars

\* C34: after the workspace-prepare stage the path the worker uses is the
\* task's workspace path, and the clone check, the mount, the commit and the
\* cleanup of the run are done in that path.
C34_WorkerUsesRecordedPath ==
    (call.op = "path" /\ call.workspacePath # "") =>
        /\ call.workspacePath = call.taskPath
        /\ \A used \in {call.clonePath, call.mountPath, call.commitPath,
                       call.cleanupPath} : used \in {"", call.taskPath}

C36_TimeoutIsFailed ==
    (/\ call.op = "run"
     /\ call.pc = "returned"
     /\ call.client = "killed"
     /\ call.deadline = "expired"
     /\ call.parent = "live")
    => call.finalStatus = "failed"

C36_Witness ==
    /\ call.op = "run"
    /\ call.pc = "returned"
    /\ call.client = "killed"
    /\ call.deadline = "expired"
    /\ call.parent = "live"
    /\ call.err = "stderr"
    /\ call.finalStatus = "failed"

\* C37: StopAndRemoveContainer returns nil when docker rm -f failed because
\* the container does not exist, returns an error for every other failure
\* of docker rm -f, and never returns an error when docker rm -f succeeded,
\* whatever docker stop did.
C37_MissingContainerIsNoError ==
    (call.op = "stopRemove" /\ call.pc \in {"returned", "logged"}) =>
        /\ (call.rmErr # <<>> /\ Contains(call.rmStderr, NoSuchContainer))
              => call.result = "nil"
        /\ (call.rmErr # <<>> /\ ~Contains(call.rmStderr, NoSuchContainer))
              => call.result = "error"
        /\ call.rmErr = <<>> => call.result = "nil"

\* the flags of a rendered command, without their order
Flags(cmd) == {cmd[i] : i \in DOMAIN cmd}

\* C38 as stated: the two runs persist identical docker_command and log
\* texts.
C38_IdenticalTexts ==
    (call.op = "audit" /\ call.pc = "done") =>
        /\ call.docker_command[1] = call.docker_command[2]
        /\ call.log[1] = call.log[2]

\* C38, amended: what is persisted and echoed is the audit rendering, with
\* every value masked; the two runs persist and echo the same flags, though
\* not always in the same order; the shell gets the raw values.
C38_AuditFormPersisted ==
    (call.op = "audit" /\ call.pc = "done") =>
        /\ \A r \in 1..2 :
              LET env == call.envs[r] IN
              /\ Len(call.docker_command[r]) = Cardinality(DOMAIN env)
              /\ Len(call.log[r]) = Cardinality(DOMAIN env)
              /\ Flags(call.docker_command[r]) =
                    {[key |-> k, value |-> MaskSensitiveValue(env[k])] : k \in DOMAIN env}
              /\ Flags(call.log[r]) = Flags(call.docker_command[r])
              /\ Flags(call.shell[r]) = {[key |-> k, value |-> env[k]] : k \in DOMAIN env}
              /\ Flags(call.docker_command[r]) \cap Flags(call.shell[r]) = {}
        /\ Flags(call.docker_command[1]) = Flags(call.docker_command[2])
        /\ Flags(call.log[1]) = Flags(call.log[2])

\* two runs with two variables whose values differ in the masked characters
C38_Witness ==
    /\ call.op = "audit"
    /\ call.pc = "done"
    /\ DOMAIN call.envs[1] = EnvKeys
    /\ \A k \in EnvKeys : call.envs[1][k] # call.envs[2][k]
    /\ call.shell[1] # call.shell[2]
    /\ Flags(call.docker_command[1]) = Flags(call.docker_command[2])
    /\ call.docker_command[1] # call.docker_command[2]

\* C39: in every reachable state of the ExecutionManager currentCount is
\* the number of entries of runningConversations.
C39_CountIsMapSize == currentCount = Cardinality(DOMAIN runningConversations)
====
